---- MODULE Spec2Model ----
(***************************************************************************)
(* Website Blocker extension: the rule synchronizer (updateBlockingRules   *)
(* of the background script in its three variants, and of the popup), the  *)
(* navigation monitor with its daily counter, and the store and rule       *)
(* engine they share.  Every await of the JavaScript is a step boundary:   *)
(* a handler invocation is a task whose pc names the call it is awaiting,  *)
(* and a step is the completion of that call followed by the synchronous   *)
(* code up to the next await.                                              *)
(***************************************************************************)
EXTENDS Integers, Sequences, FiniteSets, Bags, TLC

\* ------------------------------------------------------------------ bounds
\* Longest hostname / blocklist entry, in labels, of the match harness.
MaxLabels == 3

\* ------------------------------------------------------- names and strings
\* A string is the sequence of its characters: "a.com" is
\* <<"a", ".", "c", "o", "m">>, the empty string is <<>>.
Text(str) ==
    CASE str = "www" -> <<"w", "w", "w">>
      [] str = "com" -> <<"c", "o", "m">>
      [] str = "old" -> <<"o", "l", "d">>
      [] str = "www." -> <<"w", "w", "w", ".">>
      [] str = "http://" -> <<"h", "t", "t", "p", ":", "/", "/">>
      [] str = "https://" -> <<"h", "t", "t", "p", "s", ":", "/", "/">>
      [] str = ":80" -> <<":", "8", "0">>
      [] str = "/r/x" -> <<"/", "r", "/", "x">>
      [] OTHER -> <<str>>    \* a string of one character

\* The letters of the inputs, lower case and upper case in the same order,
\* and the digits.
LowerCase == <<"a", "b", "c", "d", "h", "l", "m", "o", "p", "r", "s", "t", "w", "x">>
UpperCase == <<"A", "B", "C", "D", "H", "L", "M", "O", "P", "R", "S", "T", "W", "X">>
Digits == {"0", "8"}

Range(seq) == {seq[i] : i \in 1..Len(seq)}

\* [a-zA-Z0-9]
Alnum == Range(LowerCase) \cup Range(UpperCase) \cup Digits

\* A lower-casing that changes nothing.
keepCase(str) == str

\* String.prototype.toLowerCase
toLowerCase(str) ==
    [i \in 1..Len(str) |->
        IF str[i] \in Range(UpperCase)
        THEN LowerCase[CHOOSE k \in 1..Len(UpperCase) : UpperCase[k] = str[i]]
        ELSE str[i]]

\* String.prototype.toUpperCase
toUpperCase(str) ==
    [i \in 1..Len(str) |->
        IF str[i] \in Range(LowerCase)
        THEN UpperCase[CHOOSE k \in 1..Len(LowerCase) : LowerCase[k] = str[i]]
        ELSE str[i]]

\* String.prototype.trim
RECURSIVE trim(_)
trim(str) ==
    IF str = <<>> THEN <<>>
    ELSE IF Head(str) = " " THEN trim(Tail(str))
    ELSE IF str[Len(str)] = " " THEN trim(SubSeq(str, 1, Len(str) - 1))
    ELSE str

\* String.prototype.startsWith, String.prototype.endsWith
StartsWith(str, prefix) ==
    Len(str) >= Len(prefix) /\ SubSeq(str, 1, Len(prefix)) = prefix
EndsWith(str, suffix) ==
    /\ Len(str) >= Len(suffix)
    /\ SubSeq(str, Len(str) - Len(suffix) + 1, Len(str)) = suffix

\* str.replace(/^prefix/, '')
StripPrefix(str, prefix) ==
    IF StartsWith(str, prefix) THEN SubSeq(str, Len(prefix) + 1, Len(str)) ELSE str

\* str.split(sep)[0]
BeforeFirst(str, sep) ==
    IF sep \in Range(str)
    THEN SubSeq(str, 1, (CHOOSE i \in 1..Len(str) :
                            str[i] = sep /\ \A j \in 1..(i - 1) : str[j] # sep) - 1)
    ELSE str

\* str.split(sep)
RECURSIVE Split(_, _)
Split(str, sep) ==
    IF sep \in Range(str)
    THEN <<BeforeFirst(str, sep)>>
         \o Split(SubSeq(str, Len(BeforeFirst(str, sep)) + 2, Len(str)), sep)
    ELSE <<str>>

\* labels.join('.')
RECURSIVE Join(_)
Join(labels) ==
    IF Len(labels) = 0 THEN <<>>
    ELSE IF Len(labels) = 1 THEN labels[1]
    ELSE labels[1] \o <<".">> \o Join(Tail(labels))

\* The labels of the hostnames and entries of the match harness.
Labels == {Text("www"), Text("a"), Text("com")}

\* The names of 1 to n labels.
Names(n) == {Join(l) : l \in UNION {[1..k -> Labels] : k \in 1..n}}

\* A navigation URL: whether new URL(url) parses it, and its hostname.
Urls(n) == [ok : BOOLEAN, host : Names(n)]

\* domain.startsWith('www.')
StartsWithWww(d) == StartsWith(d, Text("www."))

\* domain.endsWith('.' + site)
EndsWithDot(d, site) == EndsWith(d, <<".">> \o site)

\* popup.js cleanUrl: the scheme, ONE leading "www.", the path and the port
\* are cut, in this order.
cleanUrl(url) ==
    LET noScheme == IF StartsWith(url, Text("http://"))
                    THEN StripPrefix(url, Text("http://"))
                    ELSE StripPrefix(url, Text("https://"))
        noWww == StripPrefix(noScheme, Text("www."))
        noPath == BeforeFirst(noWww, "/")
    IN BeforeFirst(noPath, ":")

\* A validation that only looks for a dot.
hasDot(url) == "." \in Range(url)

\* {0,61} in the label pattern of isValidUrl
MiddleLength == 61

\* [a-zA-Z0-9]([a-zA-Z0-9-]{0,61}[a-zA-Z0-9])?
ValidLabel(label) ==
    /\ Len(label) >= 1
    /\ label[1] \in Alnum
    /\ Len(label) >= 2 =>
          /\ Len(label) - 2 <= MiddleLength
          /\ label[Len(label)] \in Alnum
          /\ \A i \in 2..(Len(label) - 1) : label[i] \in Alnum \cup {"-"}

\* popup.js isValidUrl: domainRegex.test(url) && url.includes('.')
isValidUrl(url) ==
    /\ \A i \in 1..Len(Split(url, ".")) : ValidLabel(Split(url, ".")[i])
    /\ "." \in Range(url)

\* The entries addWebsite can store: cleanUrl of an input that isValidUrl
\* accepts.
Storable(n) == {cleanUrl(i) : i \in {j \in Names(n + 1) : isValidUrl(cleanUrl(j))}}

\* background.js extractDomain: the hostname of the URL without one leading
\* "www.", the empty string for text that new URL() rejects.
extractDomain(url) ==
    IF ~url.ok THEN <<>>
    ELSE IF StartsWithWww(url.host) THEN StripPrefix(url.host, Text("www."))
    ELSE url.host

\* A match test that takes every domain for a blocked one.
AlwaysBlocked(domain, blockedSites) == TRUE

\* background.js checkAndLogBlockedAttempt: blockedSites.some(...)
isBlocked(domain, blockedSites) ==
    \E i \in 1..Len(blockedSites) :
        domain = blockedSites[i] \/ EndsWithDot(domain, blockedSites[i])

\* The rule engine's match of a urlFilter against scheme://host/path:
\* "*://S/*" needs the host to be S, "*://*.S/*" needs it to end in ".S".
FilterMatches(filter, url) ==
    /\ url.ok
    /\ IF filter.kind = "exact"
       THEN url.host = filter.site
       ELSE EndsWithDot(url.host, filter.site)

\* ------------------------------------------------------------------ rules
\* let ruleId = 100000 (background.js)
FirstRuleId == 100000
\* Date.now() % 1000000 (timestamp variant)
IdModulus == 1000000
\* baseId + (index * 100) (timestamp variant)
SiteSpacing == 100

\* The two sites of the blocklists of the system specifications.
SiteA == Join(<<Text("a"), Text("com")>>)
SiteB == Join(<<Text("b"), Text("com")>>)
Sites == {SiteA, SiteB}

Rule(id, kind, site, action) ==
    [id |-> id, kind |-> kind, site |-> site, action |-> action]

\* background.js updateBlockingRules: ruleId++ from 100000, the subdomain
\* rule first, then the exact rule, for each site in list order.
RedirectRules(sites) ==
    UNION {{Rule(FirstRuleId + 2 * (i - 1), "sub", sites[i], "redirect"),
            Rule(FirstRuleId + 2 * (i - 1) + 1, "exact", sites[i], "redirect")}
           : i \in 1..Len(sites)}

\* background-no-host.js updateBlockingRules: index * 2 + 1 and index * 2 + 2.
BlockRules(sites) ==
    UNION {{Rule((i - 1) * 2 + 1, "sub", sites[i], "block"),
            Rule((i - 1) * 2 + 2, "exact", sites[i], "block")}
           : i \in 1..Len(sites)}

\* The timestamp variant: baseId = Date.now() % 1000000,
\* siteBaseId = baseId + index * 100, ruleIdCounter 0 then 1.
TimestampRules(sites, t) ==
    UNION {{Rule((t % IdModulus) + (i - 1) * SiteSpacing, "sub", sites[i], "redirect"),
            Rule((t % IdModulus) + (i - 1) * SiteSpacing + 1, "exact", sites[i], "redirect")}
           : i \in 1..Len(sites)}

\* popup.js updateBlockingRules: one rule per site, id index + 1, the
\* subdomain pattern only.
PopupRules(sites) ==
    {Rule(i, "sub", sites[i], "redirect") : i \in 1..Len(sites)}

\* The batch a background variant builds from a blocklist at time t.
GenRules(v, sites, t) ==
    CASE v = "background" -> RedirectRules(sites)
      [] v = "noHost" -> BlockRules(sites)
      [] OTHER -> TimestampRules(sites, t)

Ids(rules) == {r.id : r \in rules}

\* A rule without its identifier: what it matches and what it does.
Shape(r) == [kind |-> r.kind, site |-> r.site, action |-> r.action]
Shapes(rules) == {Shape(r) : r \in rules}

\* An engine whose removal removes nothing.
KeepRules(rules, ids) == rules

\* declarativeNetRequest.updateDynamicRules({removeRuleIds})
RemoveRules(rules, ids) == {r \in rules : r.id \notin ids}

\* declarativeNetRequest.updateDynamicRules({addRules}) is all or nothing:
\* it rejects a batch with an identifier that is installed already or that
\* occurs twice in the batch.
BatchAccepted(rules, batch) ==
    /\ Ids(rules) \cap Ids(batch) = {}
    /\ Cardinality(Ids(batch)) = Cardinality(batch)

\* ------------------------------------------------------------------ state
VARIABLES
    variant,    \* which background script is loaded
    store,      \* chrome.storage.sync: each key absent (<<>>) or <<value>>
    installed,  \* the rule engine's dynamic rules
    now,        \* Date.now()
    today,      \* new Date().toDateString(), as a day number
    tasks,      \* the handler invocations in flight, a bag of task records
    popup,      \* the popup's WebsiteBlocker object, when the popup is open
    trace,      \* history: the external events so far
    last,       \* history: the step just taken
    hist,       \* history: results of completed reconciliations
    probe,      \* the match harness's input
    verdict,    \* the match harness's output
    badge,      \* chrome.action's badge, and whether the model follows it
    reply       \* what the onMessage listener passed to sendResponse

vars == <<variant, store, installed, now, today, tasks, popup, trace, last,
          hist, probe, verdict, badge, reply>>

\* Most external events of one behaviour.
MaxEvents == 2

\* The badge before any setBadgeText call.  watched says whether the
\* behaviour follows the badge: updateBadge reads the store and writes only
\* the badge, so the specifications that do not look at the badge leave its
\* invocations out.
NoBadge == [watched |-> FALSE, text |-> <<>>, color |-> ""]

\* A listener that answers { success: false }.
NoSuccess == [success |-> FALSE]

\* sendResponse({ success: true })
Success == [success |-> TRUE]

Variants == {"background", "noHost", "timestamp"}

Keys == {"blockedSites", "isEnabled", "todayBlocks", "lastResetDate"}

\* A storage.sync.set argument that names no key.
NoPut == [k \in Keys |-> <<>>]

\* result.blockedSites || []
SitesOf(s) == IF s.blockedSites = <<>> THEN <<>> ELSE s.blockedSites[1]
\* A reader that takes blocking to be enabled whatever is stored.
AlwaysEnabled(s) == TRUE

\* result.isEnabled !== false
EnabledOf(s) == s.isEnabled # <<FALSE>>
\* result.todayBlocks || 0
BlocksOf(s) == IF s.todayBlocks = <<>> THEN 0 ELSE s.todayBlocks[1]

\* The instants Date.now() returns in a behaviour.
Times == {1000, 1100}

NoUrl == [ok |-> FALSE, host |-> <<>>]

\* A handler invocation: the function, the call it awaits, and its locals
\* (the Settings it read, the rule identifiers it listed, the batch it
\* built, the storage.sync.set argument it prepared, the URL it is about and
\* whether that URL was passed as an argument).
NewTask(fn, pc) ==
    [fn |-> fn, pc |-> pc, sites |-> <<>>, en |-> TRUE, ids |-> {},
     batch |-> {}, put |-> NoPut, url |-> NoUrl, given |-> TRUE]

Spawn(bag, t) == bag (+) SetToBag({t})
Drop(bag, t) == bag (-) SetToBag({t})
Move(bag, t, u) == Spawn(Drop(bag, t), u)
InFlight(fn) == {t \in BagToSet(tasks) : t.fn = fn}
Quiescent == tasks = EmptyBag

\* last: for a step that ends an invocation or writes the store, the task
\* that took it (as it was before the step), whether the step ended the
\* invocation, and whether it went without an error; Quiet for another step.
Label(t, done, ok) == [task |-> t, done |-> done, ok |-> ok]
Quiet == Label(NewTask("", ""), FALSE, TRUE)

\* trace: one entry per external event: its name, the site or hostname it
\* carries, and a number (for a popup edit 1 if it went on to saveData, for
\* a navigation the stored count at that moment).
Event(e, site, n) == [e |-> e, site |-> site, n |-> n]
CanHappen == Len(trace) < MaxEvents
Happened(e) == \E i \in 1..Len(trace) : trace[i].e = e

\* ---------------------------------------------------------------- history
\* hist.snaps: the Settings snapshots read by the latest group of rule
\* updates (background reconciliations and the popup's updateBlockingRules)
\* of which each overlapped another of the group.  hist.streak: how many background
\* reconciliations in a row (at most 2 are counted) have each run alone from
\* start to end, with nothing else happening between them, and read the same
\* Settings; hist.rules is the rule set the last of them left and hist.prev
\* the rule set the one before left.
NoHist ==
    [snaps |-> {}, solo |-> FALSE, streak |-> 0, sites |-> <<>>, en |-> TRUE,
     rules |-> {}, prev |-> {}]

Snapshot(by, sites, en) == [by |-> by, sites |-> sites, en |-> en]

\* The rule updates in flight other than t: the background's invocations of
\* updateBlockingRules, and the popup handlers that are past saveData.
OtherUpdates(t) ==
    {u \in BagToSet(Drop(tasks, t)) :
        \/ u.fn = "updateBlockingRules"
        \/ u.fn \in {"addWebsite", "removeWebsite", "toggleBlocking"} /\ u.pc # "save"}

\* Rule update t reads the Settings snapshot s.
Reading(snaps, t, s) == (IF OtherUpdates(t) = {} THEN {} ELSE snaps) \cup {s}

\* A step that is no part of a reconciliation running alone.
Foreign(h) == [NoHist EXCEPT !.snaps = h.snaps]

\* An external event starts handlers.
Starting(h) == Foreign(h)

\* An external event starts one background reconciliation and nothing else.
StartingRun(h) ==
    IF Quiescent
    THEN [h EXCEPT !.solo = TRUE]
    ELSE Foreign(h)

\* A step of a background reconciliation that does not end it.
Running(h) == IF BagCardinality(tasks) = 1 THEN h ELSE Foreign(h)

\* The step that ends background reconciliation t, leaving the rules r.
Finishing(h, t, r) ==
    IF BagCardinality(tasks) = 1 /\ h.solo
    THEN [h EXCEPT !.solo = FALSE,
                   !.streak = IF h.streak >= 1 /\ h.sites = t.sites /\ h.en = t.en
                              THEN 2 ELSE 1,
                   !.sites = t.sites, !.en = t.en,
                   !.rules = r, !.prev = h.rules]
    ELSE Foreign(h)

\* ------------------------------------------------------------------ store
\* A storage.sync.set that stores nothing.
NotWritten(s, put) == s

\* storage.sync.set merges the keys the argument names.
Written(s, put) == [k \in Keys |-> IF put[k] # <<>> THEN put[k] ELSE s[k]]

\* The keys storage.onChanged reports: those whose value changed.
Changed(s, put) == {k \in Keys : put[k] # <<>> /\ put[k] # s[k]}

\* A storage.onChanged listener that calls updateBlockingRules for a change
\* of any key.
OnAnyChange(s, put) ==
    IF Changed(s, put) # {}
    THEN SetToBag({NewTask("updateBlockingRules", "get")})
    ELSE EmptyBag

\* The background's storage.onChanged listener: a change of blockedSites or
\* isEnabled calls updateBlockingRules.
OnChanged(s, put) ==
    IF Changed(s, put) \cap {"blockedSites", "isEnabled"} # {}
    THEN SetToBag({NewTask("updateBlockingRules", "get")})
    ELSE EmptyBag

\* The second storage.onChanged listener: any change in the sync area calls
\* updateBadge.
OnChangedBadge(s, put) ==
    IF badge.watched /\ Changed(s, put) # {}
    THEN SetToBag({NewTask("updateBadge", "get")})
    ELSE EmptyBag

\* What a storage.sync.set starts in the background.
Listeners(s, put) == OnChanged(s, put) (+) OnChangedBadge(s, put)

\* ----------------------------------- updateBlockingRules of the background
\* What no step of a background reconciliation changes.
ReconFrame == UNCHANGED <<variant, store, today, popup, probe, verdict, badge, reply>>

\* The instants a Date.now() call can return: the timestamp variant reads
\* the clock, which does not run backwards.
ClockReads == IF variant = "timestamp" THEN {x \in Times : x >= now} ELSE {now}

\* From the end of the removal to the next await: with blocking enabled and
\* a site to block, build the batch and call updateDynamicRules({addRules});
\* otherwise the invocation ends.  u is t with its locals as they are now.
ReconBuild(t, u) ==
    IF u.en /\ u.sites # <<>>
    THEN \E tm \in ClockReads :
            /\ now' = tm
            /\ tasks' = Move(tasks, t, [u EXCEPT !.pc = "add",
                                 !.batch = GenRules(variant, u.sites, tm)])
            /\ last' = Quiet
            /\ hist' = Running(hist)
            /\ trace' = trace
    ELSE /\ now' = now
         /\ tasks' = Drop(tasks, t)
         /\ last' = Label(t, TRUE, TRUE)
         /\ hist' = Finishing(hist, t, installed')
         /\ trace' = trace

\* if (dynamicRuleIds.length > 0) await updateDynamicRules({removeRuleIds})
ReconAfterList(t, u) ==
    IF u.ids # {}
    THEN /\ tasks' = Move(tasks, t, [u EXCEPT !.pc = "remove"])
         /\ last' = Quiet
         /\ hist' = Running(hist)
         /\ UNCHANGED <<now, trace>>
    ELSE ReconBuild(t, u)

\* await chrome.storage.sync.get(['blockedSites', 'isEnabled'])
ReconGet(t) ==
    /\ t.fn = "updateBlockingRules" /\ t.pc = "get"
    /\ LET u == [t EXCEPT !.pc = "list", !.sites = SitesOf(store),
                          !.en = EnabledOf(store)]
       IN /\ tasks' = Move(tasks, t, u)
          /\ hist' = [Running(hist) EXCEPT !.snaps =
                        Reading(@, t, Snapshot("background", u.sites, u.en))]
    /\ last' = Quiet
    /\ UNCHANGED <<installed, now, trace>>
    /\ ReconFrame

\* await chrome.declarativeNetRequest.getDynamicRules(); background.js then
\* awaits getEnabledRulesets() too.
ReconList(t) ==
    /\ t.fn = "updateBlockingRules" /\ t.pc = "list"
    /\ installed' = installed
    /\ LET u == [t EXCEPT !.ids = Ids(installed)]
       IN IF variant = "background"
          THEN /\ tasks' = Move(tasks, t, [u EXCEPT !.pc = "static"])
               /\ last' = Quiet
               /\ hist' = Running(hist)
               /\ UNCHANGED <<now, trace>>
          ELSE ReconAfterList(t, u)
    /\ ReconFrame

\* await chrome.declarativeNetRequest.getEnabledRulesets()
ReconStatic(t) ==
    /\ t.fn = "updateBlockingRules" /\ t.pc = "static"
    /\ installed' = installed
    /\ ReconAfterList(t, t)
    /\ ReconFrame

\* await updateDynamicRules({removeRuleIds: dynamicRuleIds}); the timestamp
\* variant then awaits a 50 ms timer.
ReconRemove(t) ==
    /\ t.fn = "updateBlockingRules" /\ t.pc = "remove"
    /\ installed' = RemoveRules(installed, t.ids)
    /\ IF variant = "timestamp"
       THEN /\ tasks' = Move(tasks, t, [t EXCEPT !.pc = "wait"])
            /\ last' = Quiet
            /\ hist' = Running(hist)
            /\ UNCHANGED <<now, trace>>
       ELSE ReconBuild(t, t)
    /\ ReconFrame

\* await new Promise(resolve => setTimeout(resolve, 50))
ReconWait(t) ==
    /\ t.fn = "updateBlockingRules" /\ t.pc = "wait"
    /\ installed' = installed
    /\ ReconBuild(t, t)
    /\ ReconFrame

\* A catch block that calls updateBlockingRules again.
ReconRetry(t) ==
    /\ installed' = installed
    /\ tasks' = Move(tasks, t, NewTask("updateBlockingRules", "get"))
    /\ last' = Label(t, TRUE, FALSE)
    /\ hist' = Foreign(hist)
    /\ now' = now

\* The catch block: background.js and the no-host variant log and return;
\* the timestamp variant lists the rules again to clear them.
ReconCatch(t) ==
    /\ installed' = installed
    /\ IF variant = "timestamp"
       THEN tasks' = Move(tasks, t, [t EXCEPT !.pc = "clearList"])
       ELSE tasks' = Drop(tasks, t)
    /\ last' = Label(t, variant # "timestamp", FALSE)
    /\ hist' = Foreign(hist)
    /\ now' = now

\* await updateDynamicRules({addRules: rules})
ReconAdd(t) ==
    /\ t.fn = "updateBlockingRules" /\ t.pc = "add"
    /\ IF BatchAccepted(installed, t.batch)
       THEN /\ installed' = installed \cup t.batch
            /\ tasks' = Drop(tasks, t)
            /\ last' = Label(t, TRUE, TRUE)
            /\ hist' = Finishing(hist, t, installed')
            /\ now' = now
       ELSE ReconCatch(t)
    /\ trace' = trace
    /\ ReconFrame

\* The engine rejects the batch for another reason (a quota, a filter it
\* does not accept): an external event.
ReconAddRejected(t) ==
    /\ t.fn = "updateBlockingRules" /\ t.pc = "add"
    /\ CanHappen
    /\ trace' = Append(trace, Event("engineError", <<>>, 0))
    /\ ReconCatch(t)
    /\ ReconFrame

\* catch, timestamp variant: const allRules = await getDynamicRules()
ReconClearList(t) ==
    /\ t.fn = "updateBlockingRules" /\ t.pc = "clearList"
    /\ IF installed # {}
       THEN /\ tasks' = Move(tasks, t, [t EXCEPT !.pc = "clearRemove",
                                                 !.ids = Ids(installed)])
            /\ last' = Label(t, FALSE, FALSE)
       ELSE /\ tasks' = Drop(tasks, t)
            /\ last' = Label(t, TRUE, FALSE)
    /\ hist' = Foreign(hist)
    /\ UNCHANGED <<installed, now, trace>>
    /\ ReconFrame

\* catch, timestamp variant: await updateDynamicRules({removeRuleIds})
ReconClearRemove(t) ==
    /\ t.fn = "updateBlockingRules" /\ t.pc = "clearRemove"
    /\ installed' = RemoveRules(installed, t.ids)
    /\ tasks' = Drop(tasks, t)
    /\ last' = Label(t, TRUE, FALSE)
    /\ hist' = Foreign(hist)
    /\ UNCHANGED <<now, trace>>
    /\ ReconFrame

\* ------------------------------------------------- clearAllRulesAndReload
\* background.js and the timestamp variant, on startup and on install.
ClearFrame == UNCHANGED <<variant, store, now, today, popup, trace, probe, verdict, badge, reply>>

\* const existingRules = await getDynamicRules(); with no rule to clear the
\* 100 ms timer is set at once.
ClearList(t) ==
    /\ t.fn = "clearAllRulesAndReload" /\ t.pc = "list"
    /\ tasks' = Move(tasks, t, [t EXCEPT !.ids = Ids(installed),
                        !.pc = IF installed # {} THEN "remove" ELSE "timer"])
    /\ last' = Quiet
    /\ hist' = Foreign(hist)
    /\ installed' = installed
    /\ ClearFrame

\* await updateDynamicRules({removeRuleIds: ruleIds}); setTimeout(..., 100)
ClearRemove(t) ==
    /\ t.fn = "clearAllRulesAndReload" /\ t.pc = "remove"
    /\ installed' = RemoveRules(installed, t.ids)
    /\ tasks' = Move(tasks, t, [t EXCEPT !.pc = "timer"])
    /\ last' = Quiet
    /\ hist' = Foreign(hist)
    /\ ClearFrame

\* The timer fires: this.updateBlockingRules()
ClearTimer(t) ==
    /\ t.fn = "clearAllRulesAndReload" /\ t.pc = "timer"
    /\ tasks' = Move(tasks, t, NewTask("updateBlockingRules", "get"))
    /\ last' = Label(t, TRUE, TRUE)
    /\ hist' = IF BagCardinality(tasks) = 1
               THEN [Foreign(hist) EXCEPT !.solo = TRUE]
               ELSE Foreign(hist)
    /\ installed' = installed
    /\ ClearFrame

\* --------------------------------------------------- setupDefaultSettings
\* const result = await storage.sync.get([...]); the defaults object is
\* built from it.
DefaultsGet(t) ==
    /\ t.fn = "setupDefaultSettings" /\ t.pc = "get"
    /\ tasks' = Move(tasks, t, [t EXCEPT !.pc = "set", !.put =
            [blockedSites |-> <<SitesOf(store)>>,
             isEnabled |-> <<EnabledOf(store)>>,
             todayBlocks |-> <<BlocksOf(store)>>,
             lastResetDate |-> IF store.lastResetDate = <<>> THEN <<today>>
                               ELSE store.lastResetDate]])
    /\ last' = Quiet
    /\ hist' = Foreign(hist)
    /\ UNCHANGED <<variant, store, installed, now, today, popup, trace, probe, verdict, badge, reply>>

\* await chrome.storage.sync.set(defaults)
DefaultsSet(t) ==
    /\ t.fn = "setupDefaultSettings" /\ t.pc = "set"
    /\ store' = Written(store, t.put)
    /\ tasks' = Drop(tasks, t) (+) Listeners(store, t.put)
    /\ last' = Label(t, TRUE, TRUE)
    /\ hist' = Foreign(hist)
    /\ UNCHANGED <<variant, installed, now, today, popup, trace, probe, verdict, badge, reply>>

\* ----------------------------------------------- the background's listeners
EventFrame == UNCHANGED <<variant, store, installed, now, today, popup, probe, verdict, badge>>

\* What onStartup and onInstalled call to rebuild the rules.
Reload ==
    IF variant = "noHost"
    THEN NewTask("updateBlockingRules", "get")
    ELSE NewTask("clearAllRulesAndReload", "list")

\* chrome.runtime.onStartup
OnStartup ==
    /\ CanHappen
    /\ trace' = Append(trace, Event("startup", <<>>, 0))
    /\ tasks' = Spawn(tasks, Reload)
    /\ last' = Label(NewTask("onStartup", "event"), TRUE, TRUE)
    /\ hist' = IF variant = "noHost" THEN StartingRun(hist) ELSE Starting(hist)
    /\ reply' = reply
    /\ EventFrame

\* chrome.runtime.onInstalled
OnInstalled ==
    /\ CanHappen
    /\ trace' = Append(trace, Event("installed", <<>>, 0))
    /\ tasks' = Spawn(Spawn(tasks, NewTask("setupDefaultSettings", "get")), Reload)
    /\ last' = Label(NewTask("onInstalled", "event"), TRUE, TRUE)
    /\ hist' = Starting(hist)
    /\ reply' = reply
    /\ EventFrame

\* chrome.runtime.onMessage, {action: 'updateRules'}: updateBlockingRules()
\* is called, not awaited, and sendResponse({success: true}) follows.
OnUpdateRules ==
    /\ CanHappen
    /\ trace' = Append(trace, Event("updateRules", <<>>, 0))
    /\ tasks' = Spawn(tasks, NewTask("updateBlockingRules", "get"))
    /\ last' = Label(NewTask("onMessage", "event"), TRUE, TRUE)
    /\ hist' = StartingRun(hist)
    /\ reply' = <<Success>>
    /\ EventFrame

\* chrome.runtime.onMessage, {action: 'getBadgeInfo'}: updateBadge() is
\* called, not awaited, and sendResponse({success: true}) follows.
OnGetBadgeInfo ==
    /\ CanHappen /\ badge.watched
    /\ trace' = Append(trace, Event("getBadgeInfo", <<>>, 0))
    /\ tasks' = Spawn(tasks, NewTask("updateBadge", "get"))
    /\ last' = Label(NewTask("onMessage", "event"), TRUE, TRUE)
    /\ reply' = <<Success>>
    /\ hist' = hist
    /\ EventFrame

\* chrome.runtime.onMessage, a message whose action is neither of the two:
\* the listener calls nothing and returns true.
OnOtherMessage(action) ==
    /\ CanHappen
    /\ trace' = Append(trace, Event(action, <<>>, 0))
    /\ last' = Label(NewTask("onMessage", "event"), TRUE, TRUE)
    /\ reply' = <<>>
    /\ UNCHANGED <<tasks, hist>>
    /\ EventFrame

\* ------------------------------------------------------------ updateBadge
BadgeFrame ==
    UNCHANGED <<variant, store, installed, now, today, popup, trace, hist,
                probe, verdict, reply>>

\* Number.prototype.toString, of a count.
DigitOf(n) ==
    CASE n = 0 -> "0" [] n = 1 -> "1" [] n = 2 -> "2" [] n = 3 -> "3"
      [] n = 4 -> "4" [] n = 5 -> "5" [] n = 6 -> "6" [] n = 7 -> "7"
      [] n = 8 -> "8" [] n = 9 -> "9"

RECURSIVE toString(_)
toString(n) ==
    IF n < 10 THEN <<DigitOf(n)>> ELSE toString(n \div 10) \o <<DigitOf(n % 10)>>

BadgeColor == "#dc3545"

\* await chrome.storage.sync.get(['blockedSites', 'isEnabled'])
BadgeGet(t) ==
    /\ t.fn = "updateBadge" /\ t.pc = "get"
    /\ tasks' = Move(tasks, t, [t EXCEPT !.pc = "setText",
                                !.sites = SitesOf(store), !.en = EnabledOf(store)])
    /\ last' = Quiet
    /\ badge' = badge
    /\ BadgeFrame

\* await chrome.action.setBadgeText: the count when enabled with a site
\* listed, after which the colour is set; the empty text otherwise.
BadgeSetText(t) ==
    /\ t.fn = "updateBadge" /\ t.pc = "setText"
    /\ IF t.en /\ Len(t.sites) > 0
       THEN /\ badge' = [badge EXCEPT !.text = toString(Len(t.sites))]
            /\ tasks' = Move(tasks, t, [t EXCEPT !.pc = "setColor"])
            /\ last' = Quiet
       ELSE /\ badge' = [badge EXCEPT !.text = <<>>]
            /\ tasks' = Drop(tasks, t)
            /\ last' = Label(t, TRUE, TRUE)
    /\ BadgeFrame

\* await chrome.action.setBadgeBackgroundColor({ color: '#dc3545' })
BadgeSetColor(t) ==
    /\ t.fn = "updateBadge" /\ t.pc = "setColor"
    /\ badge' = [badge EXCEPT !.color = BadgeColor]
    /\ tasks' = Drop(tasks, t)
    /\ last' = Label(t, TRUE, TRUE)
    /\ BadgeFrame

\* ------------------------------------------------------------------ popup
\* The WebsiteBlocker object as its constructor leaves it; ready once init
\* has awaited loadData and set up the event listeners.
NoPopup ==
    [open |-> FALSE, ready |-> FALSE, blockedSites |-> <<>>,
     isEnabled |-> TRUE, todayBlocks |-> 0]

PopupFrame == UNCHANGED <<variant, now, today, probe, verdict, badge, reply>>

\* The argument of saveData's storage.sync.set, taken from the object p.
SavePut(p) ==
    [blockedSites |-> <<p.blockedSites>>, isEnabled |-> <<p.isEnabled>>,
     todayBlocks |-> <<p.todayBlocks>>, lastResetDate |-> <<>>]

\* An includes() that finds nothing.
NeverContains(seq, x) == FALSE

\* blockedSites.includes(x), blockedSites.indexOf(x) > -1
Contains(seq, x) == \E i \in 1..Len(seq) : seq[i] = x

IndexOf(seq, x) == CHOOSE i \in 1..Len(seq) : seq[i] = x /\ \A j \in 1..(i - 1) : seq[j] # x
\* blockedSites.splice(index, 1)
Splice(seq, i) == SubSeq(seq, 1, i - 1) \o SubSeq(seq, i + 1, Len(seq))

\* DOMContentLoaded: new WebsiteBlocker(), whose init calls loadData.
PopupOpen ==
    /\ CanHappen /\ ~popup.open
    /\ trace' = Append(trace, Event("popupOpen", <<>>, 0))
    /\ popup' = [NoPopup EXCEPT !.open = TRUE]
    /\ tasks' = Spawn(tasks, NewTask("loadData", "get"))
    /\ last' = Label(NewTask("DOMContentLoaded", "event"), TRUE, TRUE)
    /\ hist' = Starting(hist)
    /\ UNCHANGED <<store, installed>>
    /\ PopupFrame

\* loadData: await storage.sync.get([...]); on a new day the counter is
\* zeroed in the object and a storage.sync.set is awaited.
LoadGet(t) ==
    /\ t.fn = "loadData" /\ t.pc = "get"
    /\ LET fresh == store.lastResetDate = <<today>>
       IN /\ popup' = [popup EXCEPT !.blockedSites = SitesOf(store),
                         !.isEnabled = EnabledOf(store),
                         !.todayBlocks = IF fresh THEN BlocksOf(store) ELSE 0,
                         !.ready = fresh]
          /\ tasks' = IF fresh THEN Drop(tasks, t)
                      ELSE Move(tasks, t, [t EXCEPT !.pc = "reset", !.put =
                             [NoPut EXCEPT !.todayBlocks = <<0>>,
                                           !.lastResetDate = <<today>>]])
          /\ last' = Label(t, fresh, TRUE)
    /\ hist' = Foreign(hist)
    /\ UNCHANGED <<store, installed, trace>>
    /\ PopupFrame

\* loadData: await storage.sync.set({todayBlocks: 0, lastResetDate: today})
LoadReset(t) ==
    /\ t.fn = "loadData" /\ t.pc = "reset"
    /\ store' = Written(store, t.put)
    /\ tasks' = Drop(tasks, t) (+) Listeners(store, t.put)
    /\ popup' = [popup EXCEPT !.ready = TRUE]
    /\ last' = Label(t, TRUE, TRUE)
    /\ hist' = Foreign(hist)
    /\ UNCHANGED <<installed, trace>>
    /\ PopupFrame

\* What the user types into the input: a domain, a domain with "www." in
\* front, and a single label.
AddInputs == {SiteB, Text("www.") \o SiteA, Text("com")}

PopupHandlers == {"addWebsite", "removeWebsite", "toggleBlocking"}

\* A handler changed the object to p: saveData is called, and its
\* storage.sync.set argument is taken from the object at the call.
StartSave(fn, p) ==
    /\ popup' = p
    /\ tasks' = Spawn(tasks, [NewTask(fn, "save") EXCEPT !.put = SavePut(p)])
    /\ last' = Label(NewTask(fn, "event"), FALSE, TRUE)

\* A handler returned without changing anything.
Rejected(fn) ==
    /\ UNCHANGED <<popup, tasks>>
    /\ last' = Label(NewTask(fn, "event"), TRUE, FALSE)

\* addWebsite, to its first await: the input is lower-cased and cleaned; an
\* empty, invalid or already listed one is refused.
AddWebsite(input) ==
    /\ CanHappen /\ popup.ready
    /\ LET typed == toLowerCase(trim(input))
           url == cleanUrl(typed)
       IN IF typed = <<>> \/ ~isValidUrl(url) \/ Contains(popup.blockedSites, url)
          THEN /\ Rejected("addWebsite")
               /\ trace' = Append(trace, Event("addWebsite", input, 0))
          ELSE /\ StartSave("addWebsite",
                            [popup EXCEPT !.blockedSites = Append(@, url)])
               /\ trace' = Append(trace, Event("addWebsite", input, 1))
    /\ hist' = Starting(hist)
    /\ UNCHANGED <<store, installed>>
    /\ PopupFrame

\* removeWebsite, to its first await.
RemoveWebsite(url) ==
    /\ CanHappen /\ popup.ready
    /\ IF Contains(popup.blockedSites, url)
       THEN /\ StartSave("removeWebsite",
                  [popup EXCEPT !.blockedSites = Splice(@, IndexOf(@, url))])
            /\ trace' = Append(trace, Event("removeWebsite", url, 1))
       ELSE /\ Rejected("removeWebsite")
            /\ trace' = Append(trace, Event("removeWebsite", url, 0))
    /\ hist' = Starting(hist)
    /\ UNCHANGED <<store, installed>>
    /\ PopupFrame

\* toggleBlocking, to its first await.
ToggleBlocking ==
    /\ CanHappen /\ popup.ready
    /\ trace' = Append(trace, Event("toggleBlocking", <<>>, 1))
    /\ StartSave("toggleBlocking", [popup EXCEPT !.isEnabled = ~@])
    /\ hist' = Starting(hist)
    /\ UNCHANGED <<store, installed>>
    /\ PopupFrame

\* saveData: await chrome.storage.sync.set({...}); the handler then calls
\* the popup's updateBlockingRules, which awaits getDynamicRules().
PopupSave(t) ==
    /\ t.fn \in PopupHandlers /\ t.pc = "save"
    /\ store' = Written(store, t.put)
    /\ tasks' = Move(tasks, t, [t EXCEPT !.pc = "list"]) (+) Listeners(store, t.put)
    /\ last' = Label(t, FALSE, TRUE)
    /\ hist' = Foreign(hist)
    /\ UNCHANGED <<installed, popup, trace>>
    /\ PopupFrame

\* The popup's updateBlockingRules after its removal: the batch is built
\* from the object's isEnabled and blockedSites as they are at that moment.
PopupBuild(t, u) ==
    /\ IF popup.isEnabled /\ popup.blockedSites # <<>>
       THEN /\ tasks' = Move(tasks, t, [u EXCEPT !.pc = "add",
                                 !.batch = PopupRules(popup.blockedSites)])
            /\ last' = Quiet
       ELSE /\ tasks' = Drop(tasks, t)
            /\ last' = Label(t, TRUE, TRUE)
    /\ hist' = [Foreign(hist) EXCEPT !.snaps =
                  Reading(@, t, Snapshot("popup", popup.blockedSites, popup.isEnabled))]

\* popup updateBlockingRules: const existingRules = await getDynamicRules()
PopupList(t) ==
    /\ t.fn \in PopupHandlers /\ t.pc = "list"
    /\ LET u == [t EXCEPT !.ids = Ids(installed)]
       IN IF u.ids # {}
          THEN /\ tasks' = Move(tasks, t, [u EXCEPT !.pc = "remove"])
               /\ last' = Quiet
               /\ hist' = Foreign(hist)
          ELSE PopupBuild(t, u)
    /\ UNCHANGED <<store, installed, popup, trace>>
    /\ PopupFrame

\* popup updateBlockingRules: await updateDynamicRules({removeRuleIds})
PopupRemove(t) ==
    /\ t.fn \in PopupHandlers /\ t.pc = "remove"
    /\ installed' = RemoveRules(installed, t.ids)
    /\ PopupBuild(t, t)
    /\ UNCHANGED <<store, popup, trace>>
    /\ PopupFrame

\* popup updateBlockingRules: await updateDynamicRules({addRules}); a
\* rejection is caught and logged.
PopupAdd(t) ==
    /\ t.fn \in PopupHandlers /\ t.pc = "add"
    /\ installed' = IF BatchAccepted(installed, t.batch)
                    THEN installed \cup t.batch ELSE installed
    /\ tasks' = Drop(tasks, t)
    /\ last' = Label(t, TRUE, BatchAccepted(installed, t.batch))
    /\ hist' = Foreign(hist)
    /\ UNCHANGED <<store, popup, trace>>
    /\ PopupFrame

\* ------------------------------------------------ the rule synchronizer
\* The store of a fresh profile, and the store an earlier session left.
InitStores ==
    {[k \in Keys |-> <<>>],
     [blockedSites |-> <<(<<SiteA>>)>>, isEnabled |-> <<TRUE>>,
      todayBlocks |-> <<0>>, lastResetDate |-> <<0>>]}

\* The popup is closed, or open with loadData done.
InitPopups(s) ==
    {NoPopup,
     [open |-> TRUE, ready |-> TRUE, blockedSites |-> SitesOf(s),
      isEnabled |-> EnabledOf(s), todayBlocks |-> BlocksOf(s)]}

InitCommon ==
    /\ now = 1000
    /\ tasks = EmptyBag
    /\ trace = <<>>
    /\ last = Label(NewTask("init", "event"), TRUE, TRUE)
    /\ hist = NoHist
    /\ probe = [url |-> NoUrl, entry |-> <<>>]
    /\ verdict = <<>>
    /\ badge = NoBadge
    /\ reply = <<>>

\* The rules an earlier session's reconciliation left for the store s (the
\* clock then read 900).
Leftover(v, s) == IF EnabledOf(s) THEN GenRules(v, SitesOf(s), 900) ELSE {}

Init ==
    /\ today = 0
    /\ variant \in Variants
    /\ store \in InitStores
    /\ installed = Leftover(variant, store)
    /\ popup \in IF store.lastResetDate = <<today>> THEN InitPopups(store)
                 ELSE {NoPopup}
    /\ InitCommon

Next ==
    \/ OnStartup
    \/ OnInstalled
    \/ OnUpdateRules
    \/ PopupOpen
    \/ \E input \in AddInputs : AddWebsite(input)
    \/ \E url \in Sites : RemoveWebsite(url)
    \/ ToggleBlocking
    \/ \E t \in BagToSet(tasks) : ReconGet(t)
    \/ \E t \in BagToSet(tasks) : ReconList(t)
    \/ \E t \in BagToSet(tasks) : ReconStatic(t)
    \/ \E t \in BagToSet(tasks) : ReconRemove(t)
    \/ \E t \in BagToSet(tasks) : ReconWait(t)
    \/ \E t \in BagToSet(tasks) : ReconAdd(t)
    \/ \E t \in BagToSet(tasks) : ReconAddRejected(t)
    \/ \E t \in BagToSet(tasks) : ReconClearList(t)
    \/ \E t \in BagToSet(tasks) : ReconClearRemove(t)
    \/ \E t \in BagToSet(tasks) : ClearList(t)
    \/ \E t \in BagToSet(tasks) : ClearRemove(t)
    \/ \E t \in BagToSet(tasks) : ClearTimer(t)
    \/ \E t \in BagToSet(tasks) : DefaultsGet(t)
    \/ \E t \in BagToSet(tasks) : DefaultsSet(t)
    \/ \E t \in BagToSet(tasks) : LoadGet(t)
    \/ \E t \in BagToSet(tasks) : LoadReset(t)
    \/ \E t \in BagToSet(tasks) : PopupSave(t)
    \/ \E t \in BagToSet(tasks) : PopupList(t)
    \/ \E t \in BagToSet(tasks) : PopupRemove(t)
    \/ \E t \in BagToSet(tasks) : PopupAdd(t)

Spec == Init /\ [][Next]_vars

\* ------------------------------------------------- the navigation monitor
\* checkAndLogBlockedAttempt and incrementBlockCount of background.js (the
\* timestamp variant has the same code), and the popup's 'siteBlocked'
\* listener.
MonitorFrame == UNCHANGED <<variant, installed, now, today, popup, trace, hist, probe, verdict, badge, reply>>

\* The URLs of the navigations: a listed domain, a subdomain of it, the
\* same with "www." in front, an unlisted domain, and text that is no URL.
NavUrls ==
    {[ok |-> TRUE, host |-> SiteA],
     [ok |-> TRUE, host |-> Text("old") \o <<".">> \o SiteA],
     [ok |-> TRUE, host |-> Text("www.") \o SiteA], [ok |-> TRUE, host |-> SiteB],
     NoUrl}

\* The functions that watch the navigations: checkAndLogBlockedAttempt in
\* background.js and the timestamp variant, checkAndInjectBlockingScript in
\* background-no-host.js.
Monitors == {"checkAndLogBlockedAttempt", "checkAndInjectBlockingScript"}

\* chrome.webNavigation.onBeforeNavigate: a main-frame navigation calls
\* checkAndLogBlockedAttempt(details.url).
OnBeforeNavigate(frameId, url) ==
    /\ CanHappen /\ variant # "noHost"
    /\ trace' = Append(trace, Event(IF frameId = 0 THEN "navigate" ELSE "subframe",
                                    url.host, BlocksOf(store)))
    /\ tasks' = IF frameId = 0
                THEN Spawn(tasks, [NewTask("checkAndLogBlockedAttempt", "get")
                                     EXCEPT !.url = url])
                ELSE tasks
    /\ last' = Label(NewTask("onBeforeNavigate", "event"), TRUE, TRUE)
    /\ hist' = Starting(hist)
    /\ UNCHANGED <<variant, store, installed, now, today, popup, probe, verdict, badge, reply>>

\* await storage.sync.get(['blockedSites', 'isEnabled']); a disabled
\* blocker and an unmatched domain end the invocation, a match calls
\* incrementBlockCount, which awaits storage.sync.get.
CheckGet(t) ==
    /\ t.fn = "checkAndLogBlockedAttempt" /\ t.pc = "get"
    /\ LET blocked == /\ EnabledOf(store)
                      /\ isBlocked(extractDomain(t.url), SitesOf(store))
       IN /\ tasks' = IF blocked
                      THEN Move(tasks, t, [t EXCEPT !.pc = "incGet",
                                 !.sites = SitesOf(store), !.en = EnabledOf(store)])
                      ELSE Drop(tasks, t)
          /\ last' = IF blocked THEN Quiet ELSE Label(t, TRUE, TRUE)
    /\ store' = store
    /\ MonitorFrame

\* An incrementBlockCount that stores the Settings it was called with along
\* with the count.
IncGetAll(t) ==
    /\ t.fn \in Monitors /\ t.pc = "incGet"
    /\ tasks' = Move(tasks, t, [t EXCEPT !.pc = "incSet", !.put =
          [blockedSites |-> <<t.sites>>, isEnabled |-> <<t.en>>,
           todayBlocks |-> <<(IF store.lastResetDate # <<today>> THEN 0
                              ELSE BlocksOf(store)) + 1>>,
           lastResetDate |-> <<today>>]])
    /\ last' = Quiet
    /\ store' = store
    /\ MonitorFrame

\* incrementBlockCount: const result = await storage.sync.get([...]); the
\* count restarts from 0 when lastResetDate is not today.
IncGet(t) ==
    /\ t.fn \in Monitors /\ t.pc = "incGet"
    /\ tasks' = Move(tasks, t, [t EXCEPT !.pc = "incSet", !.put =
          [NoPut EXCEPT
             !.todayBlocks = <<(IF store.lastResetDate # <<today>> THEN 0
                                ELSE BlocksOf(store)) + 1>>,
             !.lastResetDate = <<today>>]])
    /\ last' = Quiet
    /\ store' = store
    /\ MonitorFrame

\* incrementBlockCount: await storage.sync.set({todayBlocks, lastResetDate});
\* back in checkAndLogBlockedAttempt, runtime.sendMessage is awaited;
\* checkAndInjectBlockingScript has nothing left to do.
IncSet(t) ==
    /\ t.fn \in Monitors /\ t.pc = "incSet"
    /\ store' = Written(store, t.put)
    /\ tasks' = (IF t.fn = "checkAndLogBlockedAttempt"
                 THEN Move(tasks, t, [t EXCEPT !.pc = "send"])
                 ELSE Drop(tasks, t)) (+) Listeners(store, t.put)
    /\ last' = Label(t, t.fn # "checkAndLogBlockedAttempt", TRUE)
    /\ MonitorFrame

\* await chrome.runtime.sendMessage({action: 'siteBlocked', ...}): an open
\* popup's onMessage listener runs; with no popup the rejection is caught.
SendSiteBlocked(t) ==
    /\ t.fn = "checkAndLogBlockedAttempt" /\ t.pc = "send"
    /\ tasks' = IF popup.open
                THEN Move(tasks, t, NewTask("siteBlocked", "get"))
                ELSE Drop(tasks, t)
    /\ last' = Label(t, TRUE, popup.open)
    /\ store' = store
    /\ MonitorFrame

\* background-no-host.js, chrome.tabs.onUpdated with status 'loading' and a
\* tab.url: checkAndInjectBlockingScript(tabId, tab.url).
OnTabUpdated(url) ==
    /\ CanHappen /\ variant = "noHost"
    /\ trace' = Append(trace, Event("tabUpdated", url.host, BlocksOf(store)))
    /\ tasks' = Spawn(tasks, [NewTask("checkAndInjectBlockingScript", "get")
                                EXCEPT !.url = url])
    /\ last' = Label(NewTask("onUpdated", "event"), TRUE, TRUE)
    /\ hist' = Starting(hist)
    /\ UNCHANGED <<variant, store, installed, now, today, popup, probe, verdict, badge, reply>>

\* background-no-host.js, chrome.tabs.onActivated for a tab that shows url:
\* checkAndInjectBlockingScript(activeInfo.tabId), without a URL.
OnTabActivated(url) ==
    /\ CanHappen /\ variant = "noHost"
    /\ trace' = Append(trace, Event("tabActivated", url.host, BlocksOf(store)))
    /\ tasks' = Spawn(tasks, [NewTask("checkAndInjectBlockingScript", "get")
                                EXCEPT !.url = url, !.given = FALSE])
    /\ last' = Label(NewTask("onActivated", "event"), TRUE, TRUE)
    /\ hist' = Starting(hist)
    /\ UNCHANGED <<variant, store, installed, now, today, popup, probe, verdict, badge, reply>>

\* checkAndInjectBlockingScript from the URL on: a blocked domain goes on to
\* scripting.executeScript, any other ends the invocation.  u is t with its
\* locals as they are now.
InjectCheck(t, u) ==
    IF isBlocked(extractDomain(u.url), u.sites)
    THEN /\ tasks' = Move(tasks, t, [u EXCEPT !.pc = "inject"])
         /\ last' = Quiet
    ELSE /\ tasks' = Drop(tasks, t)
         /\ last' = Label(t, TRUE, TRUE)

\* await storage.sync.get(['blockedSites', 'isEnabled']); a disabled blocker
\* and an empty blocklist end the invocation; without a URL argument
\* chrome.tabs.get(tabId) is awaited.
InjectGet(t) ==
    /\ t.fn = "checkAndInjectBlockingScript" /\ t.pc = "get"
    /\ LET u == [t EXCEPT !.sites = SitesOf(store), !.en = EnabledOf(store)]
       IN IF ~u.en \/ u.sites = <<>>
          THEN /\ tasks' = Drop(tasks, t)
               /\ last' = Label(t, TRUE, TRUE)
          ELSE IF ~t.given
          THEN /\ tasks' = Move(tasks, t, [u EXCEPT !.pc = "tabGet"])
               /\ last' = Quiet
          ELSE InjectCheck(t, u)
    /\ store' = store
    /\ MonitorFrame

\* const tab = await chrome.tabs.get(tabId); url = tab.url
InjectTabGet(t) ==
    /\ t.fn = "checkAndInjectBlockingScript" /\ t.pc = "tabGet"
    /\ InjectCheck(t, t)
    /\ store' = store
    /\ MonitorFrame

\* An executeScript whose rejection is not caught before incrementBlockCount.
InjectIgnored(t) ==
    /\ t.fn = "checkAndInjectBlockingScript" /\ t.pc = "inject"
    /\ \E injected \in BOOLEAN :
          /\ tasks' = Move(tasks, t, [t EXCEPT !.pc = "incGet"])
          /\ last' = IF injected THEN Quiet ELSE Label(t, FALSE, FALSE)
    /\ store' = store
    /\ MonitorFrame

\* await chrome.scripting.executeScript(...): on success incrementBlockCount
\* is called; a rejection (a page the extension may not script) is caught
\* and logged.
InjectScript(t) ==
    /\ t.fn = "checkAndInjectBlockingScript" /\ t.pc = "inject"
    /\ \E injected \in BOOLEAN :
          IF injected
          THEN /\ tasks' = Move(tasks, t, [t EXCEPT !.pc = "incGet"])
               /\ last' = Quiet
          ELSE /\ tasks' = Drop(tasks, t)
               /\ last' = Label(t, TRUE, FALSE)
    /\ store' = store
    /\ MonitorFrame

\* popup.js onMessage listener: storage.sync.get(['todayBlocks'], callback)
SiteBlockedGet(t) ==
    /\ t.fn = "siteBlocked" /\ t.pc = "get"
    /\ tasks' = Move(tasks, t, [t EXCEPT !.pc = "set", !.put =
          [NoPut EXCEPT !.todayBlocks = <<BlocksOf(store) + 1>>]])
    /\ last' = Quiet
    /\ store' = store
    /\ MonitorFrame

\* popup.js onMessage listener: storage.sync.set({todayBlocks: newCount})
SiteBlockedSet(t) ==
    /\ t.fn = "siteBlocked" /\ t.pc = "set"
    /\ store' = Written(store, t.put)
    /\ tasks' = Drop(tasks, t) (+) Listeners(store, t.put)
    /\ last' = Label(t, TRUE, TRUE)
    /\ MonitorFrame

\* The date changes.
Midnight ==
    /\ CanHappen
    /\ trace' = Append(trace, Event("midnight", <<>>, today + 1))
    /\ today' = today + 1
    /\ last' = Label(NewTask("midnight", "event"), TRUE, TRUE)
    /\ hist' = Foreign(hist)
    /\ UNCHANGED <<variant, store, installed, now, tasks, popup, probe, verdict, badge, reply>>

\* The store an earlier session left, with blocking on or off and a count.
CountStores ==
    {[blockedSites |-> <<(<<SiteA>>)>>, isEnabled |-> <<e>>,
      todayBlocks |-> <<n>>, lastResetDate |-> <<0>>]
     : e \in BOOLEAN, n \in {0, 2}}

InitCount ==
    /\ today = 0
    /\ variant = "background"
    /\ store \in CountStores
    /\ installed = Leftover(variant, store)
    /\ popup \in InitPopups(store)
    /\ InitCommon

NextCount ==
    \/ \E frameId \in {0, 1}, url \in NavUrls : OnBeforeNavigate(frameId, url)
    \/ Midnight
    \/ PopupOpen
    \/ ToggleBlocking
    \/ \E t \in BagToSet(tasks) : CheckGet(t)
    \/ \E t \in BagToSet(tasks) : IncGet(t)
    \/ \E t \in BagToSet(tasks) : IncSet(t)
    \/ \E t \in BagToSet(tasks) : SendSiteBlocked(t)
    \/ \E t \in BagToSet(tasks) : SiteBlockedGet(t)
    \/ \E t \in BagToSet(tasks) : SiteBlockedSet(t)
    \/ \E t \in BagToSet(tasks) : LoadGet(t)
    \/ \E t \in BagToSet(tasks) : LoadReset(t)
    \/ \E t \in BagToSet(tasks) : PopupSave(t)
    \/ \E t \in BagToSet(tasks) : PopupList(t)
    \/ \E t \in BagToSet(tasks) : PopupRemove(t)
    \/ \E t \in BagToSet(tasks) : PopupAdd(t)
    \/ \E t \in BagToSet(tasks) : ReconGet(t)
    \/ \E t \in BagToSet(tasks) : ReconList(t)
    \/ \E t \in BagToSet(tasks) : ReconStatic(t)
    \/ \E t \in BagToSet(tasks) : ReconRemove(t)
    \/ \E t \in BagToSet(tasks) : ReconAdd(t)

SpecCount == InitCount /\ [][NextCount]_vars

\* ------------------------------------------------------ the match harness
\* The monitor's test and the engine's match for one navigation and one
\* stored entry.
InitMatch ==
    /\ today = 0
    /\ variant = "background"
    /\ store = [k \in Keys |-> <<>>]
    /\ installed = {}
    /\ popup = NoPopup
    /\ now = 1000
    /\ tasks = EmptyBag
    /\ trace = <<>>
    /\ last = Label(NewTask("init", "event"), TRUE, TRUE)
    /\ hist = NoHist
    /\ probe \in [url : Urls(MaxLabels), entry : Storable(MaxLabels)]
    /\ verdict = <<>>
    /\ badge = NoBadge
    /\ reply = <<>>

Match ==
    /\ verdict = <<>>
    /\ badge = NoBadge
    /\ reply = <<>>
    /\ verdict' = <<[monitor |-> isBlocked(extractDomain(probe.url), <<probe.entry>>),
                     engine |-> \E r \in GenRules(variant, <<probe.entry>>, now) :
                                   FilterMatches(r, probe.url)]>>
    /\ UNCHANGED <<variant, store, installed, now, today, tasks, popup, trace,
                   last, hist, probe, badge, reply>>

SpecMatch == InitMatch /\ [][Match]_vars

\* -------------------------------------------------- reconciliations alone
\* The background script with no popup: startup events and 'updateRules'
\* messages over a store that nobody edits.
ReconcileStores ==
    {[k \in Keys |-> <<>>]}
    \cup {[blockedSites |-> <<sites>>, isEnabled |-> <<e>>,
           todayBlocks |-> <<0>>, lastResetDate |-> <<0>>]
          : sites \in {<<SiteA>>, <<SiteA, SiteB>>}, e \in BOOLEAN}

InitReconcile ==
    /\ today = 0
    /\ variant \in Variants
    /\ store \in ReconcileStores
    /\ installed = Leftover(variant, store)
    /\ popup = NoPopup
    /\ InitCommon

NextReconcile ==
    \/ OnStartup
    \/ OnUpdateRules
    \/ \E t \in BagToSet(tasks) : ReconGet(t)
    \/ \E t \in BagToSet(tasks) : ReconList(t)
    \/ \E t \in BagToSet(tasks) : ReconStatic(t)
    \/ \E t \in BagToSet(tasks) : ReconRemove(t)
    \/ \E t \in BagToSet(tasks) : ReconWait(t)
    \/ \E t \in BagToSet(tasks) : ReconAdd(t)
    \/ \E t \in BagToSet(tasks) : ReconAddRejected(t)
    \/ \E t \in BagToSet(tasks) : ReconClearList(t)
    \/ \E t \in BagToSet(tasks) : ReconClearRemove(t)
    \/ \E t \in BagToSet(tasks) : ClearList(t)
    \/ \E t \in BagToSet(tasks) : ClearRemove(t)
    \/ \E t \in BagToSet(tasks) : ClearTimer(t)

SpecReconcile == InitReconcile /\ [][NextReconcile]_vars

\* ------------------------------------------------------------- properties
\* The step just taken ended a background reconciliation without an error.
RunCompleted ==
    last.done /\ last.ok /\ last.task.fn = "updateBlockingRules"

\* The step just taken ended a background reconciliation whose install
\* failed.
RunFailed ==
    last.done /\ ~last.ok /\ last.task.fn = "updateBlockingRules"

\* Two rule sets with the same rules up to the identifiers.
SameRules(a, b) == Shapes(a) = Shapes(b) /\ Cardinality(a) = Cardinality(b)

\* The rule set the Settings s ask for.
Wanted(s) == IF EnabledOf(s) THEN GenRules(variant, SitesOf(s), now) ELSE {}

\* The rule set the rule update that read snapshot s builds.
GeneratedFrom(s) ==
    IF s.en /\ s.sites # <<>>
    THEN IF s.by = "popup" THEN PopupRules(s.sites)
         ELSE GenRules(variant, s.sites, now)
    ELSE {}

\* How many invocations of fn are in flight.
InFlightCount(fn) ==
    BagCardinality([t \in InFlight(fn) |-> CopiesIn(t, tasks)])

Edits == {"addWebsite", "removeWebsite", "toggleBlocking"}

\* The step labelled l completed a storage.sync.set that names todayBlocks.
WritesCount(l) ==
    /\ l.task.pc \in {"set", "reset", "save", "incSet"}
    /\ l.task.put.todayBlocks # <<>>

\* C1: a background reconciliation that read isEnabled true and N distinct
\* sites and ran to completion leaves exactly 2N dynamic rules installed,
\* with pairwise distinct identifiers.
CompletedRunLeavesTwoRulesPerSite ==
    (RunCompleted /\ last.task.en /\ last.task.sites # <<>>)
        => /\ Cardinality(installed) = 2 * Len(last.task.sites)
           /\ Cardinality(Ids(installed)) = Cardinality(installed)

\* C2: whenever a reconciliation completes having read isEnabled false or
\* an empty blockedSites, no dynamic rule is installed.
DisabledRunLeavesNoRule ==
    (RunCompleted /\ (~last.task.en \/ last.task.sites = <<>>))
        => installed = {}

\* C3 (as amended): two reconciliations in a row, each alone and to
\* completion, that read the same Settings leave the same number of rules
\* with the same actions and URL patterns; in background.js and in the
\* no-host variant the identifiers are the same too.
SecondRunLeavesSameRules ==
    hist.streak >= 2
        => /\ SameRules(hist.rules, hist.prev)
           /\ variant # "timestamp" => hist.rules = hist.prev

\* C3, its case: a second reconciliation in a row has completed and left
\* rules.
SecondRunCompleted == hist.streak = 2 /\ hist.rules # {}

\* C3 (as stated): two reconciliations in a row that read the same Settings
\* leave the same rules, identifiers included.
SecondRunLeavesSameMembers == hist.streak >= 2 => hist.rules = hist.prev

\* C4: at no time are two invocations of the background's
\* updateBlockingRules in flight at once.
ReconciliationsSerialized == InFlightCount("updateBlockingRules") <= 1

\* C5: when rule updates that read different Settings snapshots have
\* overlapped and all have finished, the installed rule set is the one
\* generated from one of the snapshots.
NoMixtureAfterOverlap ==
    (/\ Quiescent
     /\ \E s1, s2 \in hist.snaps : s1.sites # s2.sites \/ s1.en # s2.en
     /\ ~Happened("engineError"))
        => \E s \in hist.snaps : SameRules(installed, GeneratedFrom(s))

\* C6: after the popup's edits of blockedSites and isEnabled, once every
\* handler they triggered has finished, the installed rule set is the one
\* generated from the current Settings.
RulesFollowSettings ==
    (/\ Quiescent
     /\ \E i \in 1..Len(trace) : trace[i].e \in Edits /\ trace[i].n = 1
     /\ \A i \in 1..Len(trace) : trace[i].e \in Edits \cup {"popupOpen"})
        => SameRules(installed, Wanted(store))

\* C7: when a reconciliation whose bulk install failed returns, no dynamic
\* rule is installed.
FailedRunLeavesNoRule == RunFailed => installed = {}

\* C8: for every navigation URL and every entry that can be stored, the
\* monitor's test is true exactly if one of the two rules generated for the
\* entry matches the navigation.
MatchAgreement == verdict # <<>> => verdict[1].monitor = verdict[1].engine

\* C9: one matched main-frame navigation on the stored date, with blocking
\* enabled, has raised the stored todayBlocks by exactly 1 once all the
\* handlers it triggered have finished, with the popup open or closed.
NavigationCountsOnce ==
    (/\ Quiescent
     /\ Len(trace) = 1 /\ trace[1].e = "navigate"
     /\ EnabledOf(store)
     /\ isBlocked(extractDomain([ok |-> TRUE, host |-> trace[1].site]),
                  SitesOf(store)))
        => BlocksOf(store) = trace[1].n + 1

\* C10: a step that writes todayBlocks while the stored lastResetDate is
\* not today stores lastResetDate = today and a count restarted from 0.
DailyReset ==
    [][(WritesCount(last') /\ store.lastResetDate # <<today>>)
        => (store'.lastResetDate = <<today>> /\ BlocksOf(store') <= 1)]_vars

\* C11: within one calendar date the stored todayBlocks never decreases: a
\* step taken while the stored lastResetDate is today, the date staying the
\* same, leaves a count at least as large as the one stored before.
CounterNeverDecreases ==
    [][(store.lastResetDate = <<today>> /\ today' = today)
        => BlocksOf(store') >= BlocksOf(store)]_vars

\* C12: the write that ends setupDefaultSettings changes no field that
\* holds a value at that moment: it only fills in absent fields.
DefaultsKeepStoredValues ==
    [][(last'.task.fn = "setupDefaultSettings" /\ last'.done)
        => \A k \in Keys : store[k] # <<>> => store'[k] = store[k]]_vars

\* ------------------------------------------------- the normalizer harness
\* One input typed into the popup's field: a core text, decorated with a
\* scheme, a leading "www.", a port and a path, in upper or lower case.
\* kind says what the core is: a valid domain, or an invalid text.
Long(n) == [i \in 1..n |-> "a"]

\* Valid domains: the names of 2 to MaxLabels - 1 labels (MaxLabels with the
\* "www." a probe adds), a domain with an inner hyphen and one whose first
\* label has the greatest length allowed.
ValidDomains ==
    {d \in Names(MaxLabels - 1) : isValidUrl(d)}
    \cup {<<"a", "-", "b", ".">> \o Text("com"),
          Long(MiddleLength + 2) \o <<".">> \o Text("com")}

\* Invalid texts: empty, blank, without a dot, with an illegal character,
\* with a leading or a trailing hyphen in a label, with an empty label, with
\* a label one character too long.
InvalidTexts ==
    {<<>>, <<" ">>, <<" ", " ">>, Text("com"),
     <<"a", "_", "b", ".">> \o Text("com"),
     <<"a", " ", "b", ".">> \o Text("com"),
     <<"a", "?", "b", ".">> \o Text("com"),
     <<"-", "a", ".">> \o Text("com"),
     <<"a", "-", ".">> \o Text("com"),
     <<"a", ".", "-", "b", ".">> \o Text("com"),
     <<"a", ".", ".">> \o Text("com"),
     Long(MiddleLength + 3) \o <<".">> \o Text("com"),
     <<"a", ".">> \o Long(MiddleLength + 3)}

Probes ==
    [kind : {"valid"}, core : ValidDomains,
     scheme : {<<>>, Text("http://"), Text("https://")},
     www : BOOLEAN, port : {<<>>, Text(":80")}, path : {<<>>, Text("/r/x")},
     upper : BOOLEAN]
    \cup [kind : {"invalid"}, core : InvalidTexts,
          scheme : {<<>>}, www : {FALSE}, port : {<<>>}, path : {<<>>},
          upper : BOOLEAN]

\* The text typed for probe p.
Typed(p) ==
    LET text == p.scheme \o (IF p.www THEN Text("www.") ELSE <<>>) \o p.core
                \o p.port \o p.path
    IN IF p.upper THEN toUpperCase(text) ELSE text

\* The popup is open over a store that lists b.com, with its rules installed.
InitNormalize ==
    /\ today = 0
    /\ variant = "background"
    /\ store = [blockedSites |-> <<(<<SiteB>>)>>, isEnabled |-> <<TRUE>>,
                todayBlocks |-> <<0>>, lastResetDate |-> <<0>>]
    /\ installed = Leftover(variant, store)
    /\ popup = [open |-> TRUE, ready |-> TRUE, blockedSites |-> SitesOf(store),
                isEnabled |-> EnabledOf(store), todayBlocks |-> BlocksOf(store)]
    /\ now = 1000
    /\ tasks = EmptyBag
    /\ trace = <<>>
    /\ last = Label(NewTask("init", "event"), TRUE, TRUE)
    /\ hist = NoHist
    /\ probe \in Probes
    /\ verdict = <<>>
    /\ badge = NoBadge
    /\ reply = <<>>

NextNormalize ==
    \/ AddWebsite(Typed(probe))
    \/ \E t \in BagToSet(tasks) : PopupSave(t)
    \/ \E t \in BagToSet(tasks) : PopupList(t)
    \/ \E t \in BagToSet(tasks) : PopupRemove(t)
    \/ \E t \in BagToSet(tasks) : PopupAdd(t)
    \/ \E t \in BagToSet(tasks) : ReconGet(t)
    \/ \E t \in BagToSet(tasks) : ReconList(t)
    \/ \E t \in BagToSet(tasks) : ReconStatic(t)
    \/ \E t \in BagToSet(tasks) : ReconRemove(t)
    \/ \E t \in BagToSet(tasks) : ReconAdd(t)

SpecNormalize == InitNormalize /\ [][NextNormalize]_vars

\* The popup's list and, once nothing is in flight, the stored list are
\* b.com followed by the entry d.
StoredAs(d) ==
    /\ popup.blockedSites = <<SiteB, d>>
    /\ Quiescent => SitesOf(store) = <<SiteB, d>>

\* C13 (as amended): for every valid lower-case domain d that does not begin
\* with "www.", addWebsite of d with a scheme, a leading "www.", a port, a
\* path or upper-case letters added stores exactly d.
NormalizationCanonical ==
    (Happened("addWebsite") /\ probe.kind = "valid" /\ ~StartsWithWww(probe.core))
        => StoredAs(probe.core)

\* C13, its case: a domain typed with a scheme, "www.", a port and a path,
\* in upper case, has been added and saved.
DecoratedDomainAdded ==
    /\ Happened("addWebsite") /\ Quiescent
    /\ probe.kind = "valid" /\ ~StartsWithWww(probe.core)
    /\ probe.scheme # <<>> /\ probe.www /\ probe.port # <<>> /\ probe.path # <<>>
    /\ probe.upper
    /\ SitesOf(store) = <<SiteB, probe.core>>

\* C13 (as stated): for every valid domain d, addWebsite of d with a scheme,
\* a leading "www.", a port, a path or upper-case letters added stores d.
NormalizationCanonicalForAll ==
    (Happened("addWebsite") /\ probe.kind = "valid") => StoredAs(probe.core)

\* C14: after addWebsite of an invalid input (empty after trimming, without a
\* dot, with an illegal character, with a leading or trailing hyphen in a
\* label, with an empty label or a label longer than 63 characters) the
\* popup's list, the stored Settings and the installed rules are what they
\* were before, and no save or reconciliation is in flight.
InvalidInputRejected ==
    (Happened("addWebsite") /\ probe.kind = "invalid")
        => /\ popup.blockedSites = <<SiteB>>
           /\ popup.isEnabled /\ popup.todayBlocks = 0
           /\ SitesOf(store) = <<SiteB>>
           /\ EnabledOf(store) /\ BlocksOf(store) = 0
           /\ store.lastResetDate = <<0>>
           /\ installed = Leftover(variant, store)
           /\ tasks = EmptyBag

\* C14, its case: an invalid input has been typed and addWebsite has
\* returned, refusing it.
InvalidInputTyped ==
    /\ Happened("addWebsite") /\ probe.kind = "invalid"
    /\ trim(probe.core) # <<>>
    /\ last.task.fn = "addWebsite" /\ last.done /\ ~last.ok

\* ------------------------------------------------------ the badge harness
\* The popup is open over a store with blocking enabled and an empty or a
\* one-site blocklist; the badge shows what updateBadge last left for it.
BadgeStores ==
    {[blockedSites |-> <<sites>>, isEnabled |-> <<TRUE>>,
      todayBlocks |-> <<0>>, lastResetDate |-> <<0>>] : sites \in {<<>>, <<SiteA>>}}

BadgeFor(s) ==
    IF EnabledOf(s) /\ Len(SitesOf(s)) > 0
    THEN [watched |-> TRUE, text |-> toString(Len(SitesOf(s))), color |-> BadgeColor]
    ELSE [watched |-> TRUE, text |-> <<>>, color |-> ""]

InitBadge ==
    /\ today = 0
    /\ variant \in Variants
    /\ store \in BadgeStores
    /\ installed = Leftover(variant, store)
    /\ popup = [open |-> TRUE, ready |-> TRUE, blockedSites |-> SitesOf(store),
                isEnabled |-> EnabledOf(store), todayBlocks |-> BlocksOf(store)]
    /\ now = 1000
    /\ tasks = EmptyBag
    /\ trace = <<>>
    /\ last = Label(NewTask("init", "event"), TRUE, TRUE)
    /\ hist = NoHist
    /\ probe = [url |-> NoUrl, entry |-> <<>>]
    /\ verdict = <<>>
    /\ badge = BadgeFor(store)
    /\ reply = <<>>

OtherActions == {"siteBlocked", "openPopup"}

NextBadge ==
    \/ AddWebsite(SiteB)
    \/ ToggleBlocking
    \/ OnUpdateRules
    \/ OnGetBadgeInfo
    \/ \E action \in OtherActions : OnOtherMessage(action)
    \/ \E t \in BagToSet(tasks) : PopupSave(t)
    \/ \E t \in BagToSet(tasks) : PopupList(t)
    \/ \E t \in BagToSet(tasks) : PopupRemove(t)
    \/ \E t \in BagToSet(tasks) : PopupAdd(t)
    \/ \E t \in BagToSet(tasks) : ReconGet(t)
    \/ \E t \in BagToSet(tasks) : ReconList(t)
    \/ \E t \in BagToSet(tasks) : ReconStatic(t)
    \/ \E t \in BagToSet(tasks) : ReconRemove(t)
    \/ \E t \in BagToSet(tasks) : ReconWait(t)
    \/ \E t \in BagToSet(tasks) : ReconAdd(t)
    \/ \E t \in BagToSet(tasks) : ReconAddRejected(t)
    \/ \E t \in BagToSet(tasks) : ReconClearList(t)
    \/ \E t \in BagToSet(tasks) : ReconClearRemove(t)
    \/ \E t \in BagToSet(tasks) : BadgeGet(t)
    \/ \E t \in BagToSet(tasks) : BadgeSetText(t)
    \/ \E t \in BagToSet(tasks) : BadgeSetColor(t)

SpecBadge == InitBadge /\ [][NextBadge]_vars

\* C15: from an empty blocklist with blocking enabled, once everything that
\* one addWebsite of a valid site started has finished, blockedSites is that
\* site alone, 2 rules are installed and the badge text is "1".
AddEndsWithTwoRulesAndBadge ==
    (trace = <<Event("addWebsite", SiteB, 1)>> /\ popup.blockedSites = <<SiteB>>
        /\ Quiescent)
        => /\ SitesOf(store) = <<SiteB>>
           /\ Cardinality(installed) = 2
           /\ badge.text = <<"1">>

\* C16: when the popup's toggle has switched isEnabled from true to false
\* and everything in flight has finished, with no other edit of the Settings,
\* no dynamic rule is installed, blockedSites is what it was before the
\* toggle (the list the popup loaded) and the badge text is empty.
ToggleOffEndsClean ==
    (/\ trace # <<>> /\ trace[Len(trace)].e = "toggleBlocking"
     /\ \A i \in 1..(Len(trace) - 1) : trace[i].e \notin Edits
     /\ ~popup.isEnabled /\ Quiescent)
        => /\ installed = {}
           /\ SitesOf(store) = popup.blockedSites
           /\ badge.text = <<>>

\* ---------------------------------------------------- the message harness
\* Messages arrive at the background's onMessage listener while earlier
\* reconciliations and badge updates are still running.
InitMessage == InitBadge

NextMessage ==
    \/ OnUpdateRules
    \/ OnGetBadgeInfo
    \/ \E action \in OtherActions : OnOtherMessage(action)
    \/ \E t \in BagToSet(tasks) : ReconGet(t)
    \/ \E t \in BagToSet(tasks) : ReconList(t)
    \/ \E t \in BagToSet(tasks) : ReconStatic(t)
    \/ \E t \in BagToSet(tasks) : ReconRemove(t)
    \/ \E t \in BagToSet(tasks) : ReconWait(t)
    \/ \E t \in BagToSet(tasks) : ReconAdd(t)
    \/ \E t \in BagToSet(tasks) : ReconAddRejected(t)
    \/ \E t \in BagToSet(tasks) : ReconClearList(t)
    \/ \E t \in BagToSet(tasks) : ReconClearRemove(t)
    \/ \E t \in BagToSet(tasks) : BadgeGet(t)
    \/ \E t \in BagToSet(tasks) : BadgeSetText(t)
    \/ \E t \in BagToSet(tasks) : BadgeSetColor(t)

SpecMessage == InitMessage /\ [][NextMessage]_vars

\* The step delivers a message to the onMessage listener.
Delivers == trace' # trace /\ last'.task.fn = "onMessage"

\* The message the step delivers.
Delivered == trace'[Len(trace')].e

\* The step starts n more invocations of fn and ends none.
Starts(fn, n) ==
    /\ InFlightCount(fn)' = InFlightCount(fn) + n
    /\ \A t \in BagToSet(tasks) : CopiesIn(t, tasks') >= CopiesIn(t, tasks)

\* C17: the delivery of an 'updateRules' message starts one reconciliation
\* and no badge update and is answered {success: true}; that of a
\* 'getBadgeInfo' message starts one badge update and no reconciliation and
\* is answered {success: true}; that of a message with another action
\* starts neither and is not answered.
MessagesAnswered ==
    [][Delivers =>
        /\ Delivered = "updateRules" =>
              /\ Starts("updateBlockingRules", 1) /\ Starts("updateBadge", 0)
              /\ reply' = <<[success |-> TRUE]>>
        /\ Delivered = "getBadgeInfo" =>
              /\ Starts("updateBadge", 1) /\ Starts("updateBlockingRules", 0)
              /\ reply' = <<[success |-> TRUE]>>
        /\ Delivered \notin {"updateRules", "getBadgeInfo"} =>
              /\ tasks' = tasks
              /\ reply' = <<>>]_vars

\* C17, its case: a 'getBadgeInfo' message has been answered, and a message
\* with another action, delivered after it while the badge update was still
\* running, has not.
MessageUnanswered ==
    /\ Len(trace) = 2
    /\ trace[1].e = "getBadgeInfo" /\ trace[2].e \in OtherActions
    /\ last.task.fn = "onMessage"
    /\ InFlight("updateBadge") # {}
    /\ reply = <<>>

\* -------------------------------------------------------- the edit harness
\* The popup is open over a store with a duplicate-free blocklist, and the
\* user adds, removes and toggles while earlier edits are still being saved.
\* The reconciliations that the saves start in the background stay pending:
\* they read the store and write the rules only, so what the popup holds and
\* what it stores does not depend on their steps.
EditStores ==
    {[blockedSites |-> <<sites>>, isEnabled |-> <<TRUE>>,
      todayBlocks |-> <<0>>, lastResetDate |-> <<0>>] :
        sites \in {<<>>, <<SiteA>>, <<SiteB, SiteA>>}}

EditInputs == {SiteA, Text("www.") \o SiteA, toUpperCase(SiteB)}

InitEdit ==
    /\ today = 0
    /\ variant = "background"
    /\ store \in EditStores
    /\ installed = Leftover(variant, store)
    /\ popup = [open |-> TRUE, ready |-> TRUE, blockedSites |-> SitesOf(store),
                isEnabled |-> EnabledOf(store), todayBlocks |-> BlocksOf(store)]
    /\ now = 1000
    /\ tasks = EmptyBag
    /\ trace = <<>>
    /\ last = Label(NewTask("init", "event"), TRUE, TRUE)
    /\ hist = NoHist
    /\ probe = [url |-> NoUrl, entry |-> <<>>]
    /\ verdict = <<>>
    /\ badge = NoBadge
    /\ reply = <<>>

NextEdit ==
    \/ \E input \in EditInputs : AddWebsite(input)
    \/ \E url \in Sites : RemoveWebsite(url)
    \/ ToggleBlocking
    \/ \E t \in BagToSet(tasks) : PopupSave(t)
    \/ \E t \in BagToSet(tasks) : PopupList(t)
    \/ \E t \in BagToSet(tasks) : PopupRemove(t)
    \/ \E t \in BagToSet(tasks) : PopupAdd(t)

SpecEdit == InitEdit /\ [][NextEdit]_vars

NoDuplicate(seq) == \A i, j \in 1..Len(seq) : seq[i] = seq[j] => i = j

\* C18: the popup's blockedSites and the stored blockedSites never hold the
\* same domain twice.
BlocklistDuplicateFree ==
    NoDuplicate(popup.blockedSites) /\ NoDuplicate(SitesOf(store))

\* C18, its case: a.com was added as "www.a.com" and saved, and a second
\* add of it, typed "a.com", was refused.
SameSiteAddedTwice ==
    /\ trace = <<Event("addWebsite", Text("www.") \o SiteA, 1),
                 Event("addWebsite", SiteA, 0)>>
    /\ Contains(SitesOf(store), SiteA)

\* The popup's blocklist holds x.
Listed(x) == x \in Range(popup.blockedSites)

\* The step is a call of addWebsite with an input whose domain the popup's
\* blocklist holds already, or a call of removeWebsite with a site it does
\* not hold.
DuplicateStateCall ==
    /\ trace' # trace
    /\ LET ev == trace'[Len(trace')]
       IN \/ ev.e = "addWebsite" /\ Listed(cleanUrl(toLowerCase(trim(ev.site))))
          \/ ev.e = "removeWebsite" /\ ~Listed(ev.site)

\* C19: addWebsite of a site that is in the blocklist already, and
\* removeWebsite of a site that is not in it, change neither the stored
\* Settings nor the installed rules nor the popup's list, and start no save
\* and no reconciliation.
DuplicateStateIsNoOp ==
    [][DuplicateStateCall => UNCHANGED <<store, installed, tasks, popup>>]_vars

\* C19, its case: with a.com alone in the blocklist, removeWebsite of b.com
\* and then addWebsite of a.com have both returned without a save.
AbsentRemovedListedAdded ==
    /\ trace = <<Event("removeWebsite", SiteB, 0), Event("addWebsite", SiteA, 0)>>
    /\ popup.blockedSites = <<SiteA>>
    /\ Quiescent

\* C20: the identifiers of a batch are pairwise distinct, and when two
\* reconciliations have run one after the other, each alone, the second
\* assigned no identifier that the first had assigned.
IdentifiersNeverReused ==
    /\ \A t \in BagToSet(tasks) :
          (t.fn = "updateBlockingRules" /\ t.pc = "add")
              => Cardinality(Ids(t.batch)) = Cardinality(t.batch)
    /\ hist.streak = 2 => Ids(hist.rules) \cap Ids(hist.prev) = {}

\* The rules of a batch for one site are two, one with the exact pattern
\* and one with the subdomain pattern.
BothPatterns(batch, site) ==
    /\ {r.kind : r \in {q \in batch : q.site = site}} = {"exact", "sub"}
    /\ Cardinality({q \in batch : q.site = site}) = 2

\* C21: every batch handed to updateDynamicRules({addRules}), by the
\* background's updateBlockingRules or by the popup's, holds for each site
\* it was built for the exact rule *://<site>/* and the subdomain rule
\* *://*.<site>/*, and nothing else.
EveryBatchHasBothPatterns ==
    \A t \in BagToSet(tasks) :
        t.pc = "add" =>
            \A site \in Range(t.sites) \cup {r.site : r \in t.batch} :
                BothPatterns(t.batch, site)

\* ------------------------------------------------- the leftover harness
\* The background script starts over rules that something else left: the
\* popup's rules 1..N, the batch of another background variant, half of an
\* interrupted batch, its own earlier batch, or a mixture.  probe keeps
\* what was installed at the start.
Orphans ==
    {{}, PopupRules(<<SiteA, SiteB>>),
     {Rule(FirstRuleId, "sub", SiteA, "redirect")},
     PopupRules(<<SiteB>>) \cup RedirectRules(<<SiteA>>)}
    \cup {GenRules(v, <<SiteA>>, 900) : v \in Variants}

InitLeftover ==
    /\ today = 0
    /\ variant \in Variants
    /\ store \in ReconcileStores
    /\ installed \in Orphans
    /\ popup = NoPopup
    /\ now = 1000
    /\ tasks = EmptyBag
    /\ trace = <<>>
    /\ last = Label(NewTask("init", "event"), TRUE, TRUE)
    /\ hist = NoHist
    /\ probe = [orphans |-> installed]
    /\ verdict = <<>>
    /\ badge = NoBadge
    /\ reply = <<>>

SpecLeftover == InitLeftover /\ [][NextReconcile]_vars

\* C22: when a background reconciliation that ran alone has completed, the
\* installed rules are exactly the batch it built (no rule when it built
\* none), whatever was installed when it started.
SoloRunLeavesOnlyItsBatch ==
    (RunCompleted /\ hist.streak >= 1) => installed = last.task.batch

\* C22, its case: the first reconciliation has run alone to its end over
\* rules that it did not install, and the blocklist asked for a batch.
OrphansReplaced ==
    /\ RunCompleted /\ hist.streak >= 1 /\ Len(trace) = 1
    /\ probe.orphans # {}
    /\ Ids(probe.orphans) \cap Ids(last.task.batch) = {}
    /\ last.task.batch # {}

\* The step just taken completed the saveData of a popup handler.
PopupSaved(l) == l.task.fn \in PopupHandlers /\ l.task.pc = "save"

\* C23: a popup handler's saveData stores no value that the handler did not
\* set itself and that is older than the store's: it leaves todayBlocks as
\* stored, a toggle leaves blockedSites as stored, and an add or a remove
\* leaves isEnabled as stored.
NoStaleWrite ==
    [][PopupSaved(last') =>
        /\ BlocksOf(store') = BlocksOf(store)
        /\ last'.task.fn = "toggleBlocking" => SitesOf(store') = SitesOf(store)
        /\ last'.task.fn # "toggleBlocking" => EnabledOf(store') = EnabledOf(store)]_vars

\* ------------------------------------------------------ the monitor harness
\* Navigations and tab events arrive at the background script while nobody
\* edits the Settings; the popup is open or closed.  probe keeps the store
\* as it was at the start.
InitMonitor ==
    /\ today = 0
    /\ variant \in Variants
    /\ store \in CountStores
    /\ installed = Leftover(variant, store)
    /\ popup \in InitPopups(store)
    /\ now = 1000
    /\ tasks = EmptyBag
    /\ trace = <<>>
    /\ last = Label(NewTask("init", "event"), TRUE, TRUE)
    /\ hist = NoHist
    /\ probe = [start |-> store]
    /\ verdict = <<>>
    /\ badge = NoBadge
    /\ reply = <<>>

NextMonitor ==
    \/ \E frameId \in {0, 1}, url \in NavUrls : OnBeforeNavigate(frameId, url)
    \/ \E url \in NavUrls : OnTabUpdated(url)
    \/ \E url \in NavUrls : OnTabActivated(url)
    \/ \E t \in BagToSet(tasks) : CheckGet(t)
    \/ \E t \in BagToSet(tasks) : InjectGet(t)
    \/ \E t \in BagToSet(tasks) : InjectTabGet(t)
    \/ \E t \in BagToSet(tasks) : InjectScript(t)
    \/ \E t \in BagToSet(tasks) : IncGet(t)
    \/ \E t \in BagToSet(tasks) : IncSet(t)
    \/ \E t \in BagToSet(tasks) : SendSiteBlocked(t)
    \/ \E t \in BagToSet(tasks) : SiteBlockedGet(t)
    \/ \E t \in BagToSet(tasks) : SiteBlockedSet(t)

SpecMonitor == InitMonitor /\ [][NextMonitor]_vars

\* C24: while isEnabled is false, whatever navigations and tab events have
\* arrived, todayBlocks and lastResetDate are as they were, no increment is
\* under way and no 'siteBlocked' notification is sent or being handled.
DisabledCountsNothing ==
    store.isEnabled = <<FALSE>> =>
        /\ store = probe.start
        /\ \A t \in BagToSet(tasks) :
              /\ t.fn \in Monitors => t.pc = "get"
              /\ t.fn # "siteBlocked"

\* C24, its case: with isEnabled false, two navigations to the listed domain
\* a.com have been handled to the end.
DisabledNavigationsHandled ==
    /\ store.isEnabled = <<FALSE>>
    /\ Len(trace) = 2 /\ Quiescent
    /\ \A i \in 1..2 : trace[i].e \in {"navigate", "tabUpdated"} /\ trace[i].site = SiteA

\* The events of the trace that are main-frame navigation attempts to a
\* domain the blocklist covers.
BlockedNavigations ==
    {i \in 1..Len(trace) :
        /\ trace[i].e \in {"navigate", "tabUpdated"}
        /\ isBlocked(extractDomain([ok |-> TRUE, host |-> trace[i].site]),
                     SitesOf(probe.start))}

\* C25: the counter has grown by at most one for each main-frame navigation
\* attempt to a blocked domain, and not at all when nothing but subframe
\* navigations and tab activations have happened.
CountFollowsNavigations ==
    /\ BlocksOf(store) <= BlocksOf(probe.start) + Cardinality(BlockedNavigations)
    /\ (\A i \in 1..Len(trace) : trace[i].e \in {"subframe", "tabActivated"})
          => store = probe.start

\* The step moves a monitor invocation from pc p on.
Leaves(t, p) ==
    /\ t.fn = "checkAndLogBlockedAttempt" /\ t.pc = p
    /\ CopiesIn(t, tasks') < CopiesIn(t, tasks)

UnparsableNeverCounted ==
    /\ trace = <<>> =>
          /\ extractDomain(NoUrl) = <<>>
          /\ \A d \in ValidDomains : \A e \in ValidDomains \cup {d} :
                ~isBlocked(extractDomain(NoUrl), <<d, e>>)
    /\ \A t \in BagToSet(tasks) :
          (t.fn \in Monitors /\ t.url = NoUrl) => t.pc \in {"get", "tabGet"}
    /\ (\A i \in 1..Len(trace) : trace[i].site = <<>>) =>
          /\ store = probe.start
          /\ installed = Leftover(variant, probe.start)
          /\ \A t \in BagToSet(tasks) : t.fn \in Monitors

\* C27, its case: with the blocker enabled and a.com listed, two navigations
\* to an unparsable URL have been handled to their end.
UnparsableHandled ==
    /\ EnabledOf(store) /\ Contains(SitesOf(store), SiteA)
    /\ Len(trace) = 2 /\ Quiescent
    /\ \A i \in 1..2 : trace[i].site = <<>> /\ trace[i].e \in {"navigate", "tabUpdated", "tabActivated"}

\* ------------------------------------------------ failing reconciliations
\* The storage read, the listing of the rules or the removal of the old
\* rules is rejected: an external event, caught by the catch block of
\* updateBlockingRules.  A rejected removal removes nothing.
ReconCallRejected(t) ==
    /\ t.fn = "updateBlockingRules" /\ t.pc \in {"get", "list", "static", "remove"}
    /\ CanHappen
    /\ trace' = Append(trace, Event(IF t.pc = "get" THEN "storageError"
                                    ELSE "engineError", <<>>, 0))
    /\ ReconCatch(t)
    /\ ReconFrame

\* Timestamp variant: a call of the catch block is rejected in its turn; the
\* inner catch logs it and the invocation ends.  The engine that has just
\* failed fails again: no further event is counted for it.
ReconClearRejected(t) ==
    /\ t.fn = "updateBlockingRules" /\ t.pc \in {"clearList", "clearRemove"}
    /\ tasks' = Drop(tasks, t)
    /\ last' = Label(t, TRUE, FALSE)
    /\ hist' = Foreign(hist)
    /\ UNCHANGED <<installed, now, trace>>
    /\ ReconFrame

\* The reconciliations of SpecReconcile with a failure possible at each
\* call.
NextFailure ==
    \/ OnStartup
    \/ OnUpdateRules
    \/ \E t \in BagToSet(tasks) : ReconGet(t)
    \/ \E t \in BagToSet(tasks) : ReconList(t)
    \/ \E t \in BagToSet(tasks) : ReconStatic(t)
    \/ \E t \in BagToSet(tasks) : ReconRemove(t)
    \/ \E t \in BagToSet(tasks) : ReconWait(t)
    \/ \E t \in BagToSet(tasks) : ReconAdd(t)
    \/ \E t \in BagToSet(tasks) : ReconAddRejected(t)
    \/ \E t \in BagToSet(tasks) : ReconCallRejected(t)
    \/ \E t \in BagToSet(tasks) : ReconClearList(t)
    \/ \E t \in BagToSet(tasks) : ReconClearRemove(t)
    \/ \E t \in BagToSet(tasks) : ReconClearRejected(t)
    \/ \E t \in BagToSet(tasks) : ClearList(t)
    \/ \E t \in BagToSet(tasks) : ClearRemove(t)
    \/ \E t \in BagToSet(tasks) : ClearTimer(t)

SpecFailure == InitReconcile /\ [][NextFailure]_vars

\* The events that call for a reconciliation.
Triggers == {"startup", "installed", "updateRules"}

\* How many reconciliations are at their first call.
Beginning ==
    BagCardinality([t \in {u \in InFlight("updateBlockingRules") : u.pc = "get"}
                      |-> CopiesIn(t, tasks)])

\* C28: a reconciliation that fails is abandoned without retry.  The step in
\* which a call of updateBlockingRules fails leaves no more invocations than
\* there were, and the only one it can leave in place of the failed one is
\* the same invocation inside the timestamp variant's catch block; and a
\* reconciliation begins only in the step of a triggering event or when the
\* startup timer of clearAllRulesAndReload fires.
FailedRunAbandoned ==
    [][
       /\ \A t \in InFlight("updateBlockingRules") :
             (CopiesIn(t, tasks') < CopiesIn(t, tasks) /\ ~last'.ok) =>
                /\ last'.task = t
                /\ \/ tasks' = Drop(tasks, t)
                   \/ /\ variant = "timestamp"
                      /\ \E pc \in {"clearList", "clearRemove"}, ids \in {t.ids, Ids(installed)} :
                            tasks' = Move(tasks, t, [t EXCEPT !.pc = pc, !.ids = ids])
                /\ UNCHANGED store
       /\ (Beginning' > Beginning) =>
             \/ /\ Len(trace') = Len(trace) + 1
                /\ trace'[Len(trace')].e \in Triggers
             \/ InFlightCount("clearAllRulesAndReload")'
                   < InFlightCount("clearAllRulesAndReload")
      ]_vars

\* C28, its case: a reconciliation failed at its storage read, at the
\* listing or at the removal, its invocation has ended and nothing is
\* running.
FailedRunEnded ==
    /\ Quiescent
    /\ RunFailed
    /\ trace # <<>>
    /\ trace[Len(trace)].e \in {"storageError", "engineError"}
    /\ last.task.pc \in {"get", "list", "static", "remove", "clearList", "clearRemove"}

\* The step brings an invocation of checkAndInjectBlockingScript to pc.
InjectorArrives(pc) ==
    \E u \in BagToSet(tasks') :
        /\ u.fn = "checkAndInjectBlockingScript" /\ u.pc = pc
        /\ CopiesIn(u, tasks') > CopiesIn(u, tasks)

\* The step takes an invocation of checkAndInjectBlockingScript from pc on.
InjectorLeaves(t, pc) ==
    /\ t.fn = "checkAndInjectBlockingScript" /\ t.pc = pc
    /\ CopiesIn(t, tasks') < CopiesIn(t, tasks)

\* C29: in the no-host variant a rejected executeScript ends the invocation
\* normally with the Settings and the rules as they were and nothing
\* started, and the counter is incremented only after an executeScript that
\* succeeded: incrementBlockCount is entered only from a successful
\* injection, and the store is written only by an incrementBlockCount.
InjectionFailureTolerated ==
    [][variant = "noHost" =>
         /\ \A t \in BagToSet(tasks) :
               (InjectorLeaves(t, "inject") /\ ~last'.ok) =>
                  /\ tasks' = Drop(tasks, t)
                  /\ last' = Label(t, TRUE, FALSE)
                  /\ UNCHANGED <<store, installed>>
         /\ InjectorArrives("incGet") =>
               \E t \in BagToSet(tasks) : InjectorLeaves(t, "inject") /\ last'.ok
         /\ InjectorArrives("incSet") =>
               \E t \in BagToSet(tasks) : InjectorLeaves(t, "incGet")
         /\ store' # store =>
               \E t \in BagToSet(tasks) : InjectorLeaves(t, "incSet")
      ]_vars

\* C29, its case: a tab loading a.com could not be scripted; the invocation
\* has ended and the Settings are those of the start.
InjectionFailed ==
    /\ variant = "noHost"
    /\ last.task.fn = "checkAndInjectBlockingScript" /\ last.task.pc = "inject"
    /\ last.done /\ ~last.ok
    /\ last.task.url = [ok |-> TRUE, host |-> SiteA]
    /\ Quiescent
    /\ store = probe.start

\* ------------------------------------------------ the storage listener
\* Every writer of the store at work in each variant: the popup's edits and
\* their saves, the monitor's counter increments after navigations to a.com,
\* and the popup's 'siteBlocked' increments.  The reconciliations that the
\* storage.onChanged listener starts stay pending.
InitListener ==
    /\ today = 0
    /\ variant \in Variants
    /\ store \in EditStores
    /\ installed = Leftover(variant, store)
    /\ popup = [open |-> TRUE, ready |-> TRUE, blockedSites |-> SitesOf(store),
                isEnabled |-> EnabledOf(store), todayBlocks |-> BlocksOf(store)]
    /\ InitCommon

NextListener ==
    \/ \E input \in EditInputs : AddWebsite(input)
    \/ \E url \in Sites : RemoveWebsite(url)
    \/ ToggleBlocking
    \/ OnBeforeNavigate(0, [ok |-> TRUE, host |-> SiteA])
    \/ OnTabUpdated([ok |-> TRUE, host |-> SiteA])
    \/ \E t \in BagToSet(tasks) : PopupSave(t)
    \/ \E t \in BagToSet(tasks) : PopupList(t)
    \/ \E t \in BagToSet(tasks) : PopupRemove(t)
    \/ \E t \in BagToSet(tasks) : PopupAdd(t)
    \/ \E t \in BagToSet(tasks) : CheckGet(t)
    \/ \E t \in BagToSet(tasks) : InjectGet(t)
    \/ \E t \in BagToSet(tasks) : InjectScript(t)
    \/ \E t \in BagToSet(tasks) : IncGet(t)
    \/ \E t \in BagToSet(tasks) : IncSet(t)
    \/ \E t \in BagToSet(tasks) : SendSiteBlocked(t)
    \/ \E t \in BagToSet(tasks) : SiteBlockedGet(t)
    \/ \E t \in BagToSet(tasks) : SiteBlockedSet(t)

SpecListener == InitListener /\ [][NextListener]_vars

\* The keys of the store whose value the step changes.
StoreDelta == {k \in Keys : store'[k] # store[k]}

\* The step starts a background reconciliation.
ReconStarts ==
    \E u \in BagToSet(tasks') :
        /\ u = NewTask("updateBlockingRules", "get")
        /\ CopiesIn(u, tasks') = CopiesIn(u, tasks) + 1

\* C30: a step that changes blockedSites or isEnabled in the store starts
\* exactly one background reconciliation; a step that changes no more than
\* todayBlocks and lastResetDate, or nothing in the store, starts none; and
\* a step that changes the store changes no installed rule.
ReconciliationIffSettingsChange ==
    [][/\ StoreDelta \cap {"blockedSites", "isEnabled"} # {} => ReconStarts
       /\ StoreDelta \cap {"blockedSites", "isEnabled"} = {} =>
             CopiesIn(NewTask("updateBlockingRules", "get"), tasks')
                <= CopiesIn(NewTask("updateBlockingRules", "get"), tasks)
       /\ StoreDelta # {} => installed' = installed
      ]_vars

\* C30, its case: the popup's toggle has changed isEnabled, a navigation to
\* a.com has been counted, and the write of the count was the latest step to
\* end an invocation or write the store.
CounterWrittenAfterToggle ==
    /\ Happened("toggleBlocking") /\ Happened("navigate")
    /\ InFlightCount("updateBlockingRules") = 1
    /\ last.task.fn = "checkAndLogBlockedAttempt" /\ last.task.pc = "incSet"
    /\ BlocksOf(store) = last.task.put.todayBlocks[1]

\* ------------------------------------------------- the background's life
\* The functions of the popup page; every other invocation runs in the
\* background service worker.
PopupFns == PopupHandlers \cup {"loadData", "siteBlocked"}

\* The browser ends the idle service worker: the invocations waiting in it
\* for a call to return and its pending timers are gone with its memory;
\* the store and the installed rules stay.
Teardown ==
    /\ CanHappen
    /\ \E t \in BagToSet(tasks) : t.fn \notin PopupFns
    /\ trace' = Append(trace, Event("teardown", <<>>, 0))
    /\ tasks' = [t \in {u \in BagToSet(tasks) : u.fn \in PopupFns}
                   |-> CopiesIn(t, tasks)]
    /\ last' = Label(NewTask("teardown", "event"), TRUE, TRUE)
    /\ hist' = Foreign(hist)
    /\ UNCHANGED <<variant, store, installed, now, today, popup, probe, verdict, badge, reply>>

\* The service worker is started again for an event none of its listeners
\* acts on: new BackgroundBlocker() runs init(), which adds the listeners and
\* calls nothing.
Restart ==
    /\ trace # <<>> /\ trace[Len(trace)].e = "teardown"
    /\ trace' = Append(trace, Event("restart", <<>>, 0))
    /\ last' = Label(NewTask("constructor", "event"), TRUE, TRUE)
    /\ hist' = Foreign(hist)
    /\ UNCHANGED <<variant, store, installed, now, today, tasks, popup, probe, verdict, badge, reply>>

\* clearAllRulesAndReload, catch: getDynamicRules or the removal is
\* rejected and this.updateBlockingRules() is called at once.
ClearRejected(t) ==
    /\ t.fn = "clearAllRulesAndReload" /\ t.pc \in {"list", "remove"}
    /\ CanHappen
    /\ trace' = Append(trace, Event("engineError", <<>>, 0))
    /\ tasks' = Move(tasks, t, NewTask("updateBlockingRules", "get"))
    /\ last' = Label(t, TRUE, FALSE)
    /\ hist' = Foreign(hist)
    /\ UNCHANGED <<variant, store, installed, now, today, popup, probe, verdict, badge, reply>>

\* Startup and install events, the handlers they start, and the service
\* worker ending and starting again, over a store nobody else writes.
NextLifecycle ==
    \/ OnStartup
    \/ OnInstalled
    \/ Teardown
    \/ Restart
    \/ \E t \in BagToSet(tasks) : ClearList(t)
    \/ \E t \in BagToSet(tasks) : ClearRemove(t)
    \/ \E t \in BagToSet(tasks) : ClearTimer(t)
    \/ \E t \in BagToSet(tasks) : ClearRejected(t)
    \/ \E t \in BagToSet(tasks) : DefaultsGet(t)
    \/ \E t \in BagToSet(tasks) : DefaultsSet(t)
    \/ \E t \in BagToSet(tasks) : ReconGet(t)
    \/ \E t \in BagToSet(tasks) : ReconList(t)
    \/ \E t \in BagToSet(tasks) : ReconStatic(t)
    \/ \E t \in BagToSet(tasks) : ReconRemove(t)
    \/ \E t \in BagToSet(tasks) : ReconWait(t)
    \/ \E t \in BagToSet(tasks) : ReconAdd(t)
    \/ \E t \in BagToSet(tasks) : ReconClearList(t)
    \/ \E t \in BagToSet(tasks) : ReconClearRemove(t)

SpecLifecycle == InitReconcile /\ [][NextLifecycle]_vars

\* The step ends an invocation of clearAllRulesAndReload.
ClearerEnds ==
    /\ \E t \in InFlight("clearAllRulesAndReload") :
          CopiesIn(t, tasks') < CopiesIn(t, tasks)
    /\ \A u \in BagToSet(tasks') :
          u.fn = "clearAllRulesAndReload" => CopiesIn(u, tasks') <= CopiesIn(u, tasks)

\* The step is a startup or an install event.
StartupEvent ==
    /\ Len(trace') = Len(trace) + 1
    /\ trace'[Len(trace')].e \in {"startup", "installed"}

\* C31: every startup and every install event is followed by exactly one
\* run of updateBlockingRules.  An invocation of clearAllRulesAndReload ends
\* only by starting one run (from its timer or from its catch block), and a
\* run starts only so, or in the no-host variant in the step of the event
\* itself.
EveryStartupStartsOneRun ==
    [][
       /\ ClearerEnds => ReconStarts
       /\ CopiesIn(NewTask("updateBlockingRules", "get"), tasks')
             > CopiesIn(NewTask("updateBlockingRules", "get"), tasks) =>
             /\ ReconStarts
             /\ ClearerEnds \/ (variant = "noHost" /\ StartupEvent)
      ]_vars

\* C32: no background handler depends on memory that a teardown takes away.
\* When the service worker was ended, has started again and nothing is
\* running, the installed rules are those the Settings ask for.
TornDownStateRestored ==
    (Quiescent /\ trace # <<>> /\ trace[Len(trace)].e = "restart")
        => SameRules(installed, Wanted(store))

\* C33: the navigation monitor only counts.  No step of
\* checkAndLogBlockedAttempt, of checkAndInjectBlockingScript or of the
\* incrementBlockCount they call changes blockedSites, isEnabled or an
\* installed rule, and the storage.sync.set of the increment names
\* todayBlocks and lastResetDate and no other key.
MonitorOnlyCounts ==
    [][\A t \in BagToSet(tasks) :
          (t.fn \in Monitors /\ CopiesIn(t, tasks') < CopiesIn(t, tasks)) =>
             /\ StoreDelta \subseteq {"todayBlocks", "lastResetDate"}
             /\ installed' = installed
             /\ t.pc = "incSet" =>
                   {k \in Keys : t.put[k] # <<>>} = {"todayBlocks", "lastResetDate"}
      ]_vars

\* C33, its case: a navigation to a.com was counted after the popup had
\* stored another blocklist than the one the monitor had read.
CountedDuringEdit ==
    /\ Happened("navigate")
    /\ last.task.fn = "checkAndLogBlockedAttempt" /\ last.task.pc = "incSet"
    /\ SitesOf(store) # last.task.sites
    /\ BlocksOf(store) = 1

\* C34: no block is lost under concurrency.  In background.js and the
\* timestamp variant, with blocking enabled, no popup open and the date
\* unchanged, once every handler has finished todayBlocks is higher than at
\* the start by the number of main-frame navigations to a blocked domain.
NoBlockLost ==
    (/\ variant # "noHost" /\ ~popup.open
     /\ EnabledOf(probe.start) /\ probe.start.lastResetDate = <<today>>
     /\ Quiescent)
        => BlocksOf(store) = BlocksOf(probe.start) + Cardinality(BlockedNavigations)

\* C35: once every handler has finished, the badge text is the decimal count
\* of the stored blockedSites when isEnabled is true and the list is not
\* empty, and the empty text otherwise; stated for the updateBadge calls
\* that storage changes start, with popup edits as the only events.
BadgeShowsFinalSettings ==
    (/\ badge.watched /\ Quiescent
     /\ \A i \in 1..Len(trace) : trace[i].e \in Edits)
        => badge.text = BadgeFor(store).text

\* C36: a {success: true} response to an 'updateRules' request is sent only
\* after the forced reconciliation has completed.  In the state the
\* listener leaves when it has answered an 'updateRules' message, no
\* reconciliation is in flight and the installed rules are those the
\* Settings ask for.
ResponseAfterReconciliation ==
    (/\ last.task.fn = "onMessage"
     /\ trace # <<>> /\ trace[Len(trace)].e = "updateRules"
     /\ reply = <<Success>>)
        => /\ InFlight("updateBlockingRules") = {}
           /\ SameRules(installed, Wanted(store))

\* ------------------------------------------------ the identifier harness
\* The timestamp variant builds a batch for one blocklist at each of two
\* readings of the clock, the second not before the first.  The readings
\* lie around the spacing of the sites' slots and around the modulus.
ClockReadings ==
    {0, 1, 99, 100, 101, 1000, 1100, 999900, 999999, 1000000, 1000100, 2000000}

IdLists ==
    {<<SiteA>>, <<SiteA, SiteB>>, <<SiteB, SiteA, Text("a.") \o SiteA>>}

InitIds ==
    /\ today = 0
    /\ variant = "timestamp"
    /\ store = [k \in Keys |-> <<>>]
    /\ installed = {}
    /\ popup = NoPopup
    /\ now = 1000
    /\ tasks = EmptyBag
    /\ trace = <<>>
    /\ last = Label(NewTask("init", "event"), TRUE, TRUE)
    /\ hist = NoHist
    /\ probe \in {p \in [first : ClockReadings, second : ClockReadings, sites : IdLists] :
                    p.first <= p.second}
    /\ verdict = <<>>
    /\ badge = NoBadge
    /\ reply = <<>>

\* The two batches, and for the first the outcome of the check before the
\* install: ruleIds.length !== uniqueIds.size throws.
BuildBatches ==
    /\ verdict = <<>>
    /\ LET a == TimestampRules(probe.sites, probe.first)
           b == TimestampRules(probe.sites, probe.second)
       IN verdict' = <<[first |-> a, second |-> b,
                        throws |-> 2 * Len(probe.sites) # Cardinality(Ids(a))]>>
    /\ UNCHANGED <<variant, store, installed, now, today, tasks, popup, trace,
                   last, hist, probe, badge, reply>>

SpecIds == InitIds /\ [][BuildBatches]_vars

\* C37: in the timestamp variant the identifiers of one batch are pairwise
\* distinct, so that the check before the install does not throw, and two
\* batches built at different times share no identifier.
TimestampIdentifiersDisjoint ==
    verdict # <<>> =>
        /\ ~verdict[1].throws
        /\ Cardinality(Ids(verdict[1].first)) = Cardinality(verdict[1].first)
        /\ probe.first # probe.second =>
              Ids(verdict[1].first) \cap Ids(verdict[1].second) = {}

====
